---- MODULE Spec2Model ----
(***************************************************************************)
(* State-machine model of the immediate-mode layout / interaction engine   *)
(* of src/src/flatui.cpp: the two-pass Run, the Group accumulator, the     *)
(* element sequence and its matching, placement, scroll regions, pointer   *)
(* capture, event derivation and gamepad focus traversal.                  *)
(*                                                                         *)
(* Conventions.  vec2i is a pair <<x, y>>, vec4i a 4-tuple <<x, y, z, w>>. *)
(* Indices into elements_ are 0-based as in the source; element k of the   *)
(* vector is elements_[k + 1] of the TLA+ sequence.  An element id is a    *)
(* string; two ids are the same pointer iff the strings are equal.  An     *)
(* Event bitmask is the set of its bits.  Sizes handed to the widgets are  *)
(* physical pixels (the value VirtualToPhysical has produced).  A failed   *)
(* assert aborts the program (pc = "fatal").                               *)
(***************************************************************************)
EXTENDS Integers, Sequences, FiniteSets, TLC

\* ------------------------------------------------------------ constants

kDummyId == "__null_id__"
kSentinelId == "__sentinel__"
\* What a read through an invalid pointer / index may yield as an id.
kGarbageId == "__garbage__"
\* Stands for the result of a call that does not return.
kNoReturn == "__no_return__"
kScrollSpeedDragDefault == 2
kScrollSpeedWheelgDefault == 16
kDragStartThresholdDefault == 8
kPointerIndexInvalid == -1
kDragStartPoisitionInvalid == <<-1, -1>>
kZeros2i == <<0, 0>>
kZeros4i == <<0, 0, 0, 0>>

kDirHorizontal == "kDirHorizontal"
kDirVertical == "kDirVertical"
kDirOverlay == "kDirOverlay"
kAlignTop == "kAlignTop"
kAlignLeft == kAlignTop
kAlignCenter == "kAlignCenter"
kAlignBottom == "kAlignBottom"

kEventNone == {}
kEventWentUp == "kEventWentUp"
kEventWentDown == "kEventWentDown"
kEventIsDown == "kEventIsDown"
kEventStartDrag == "kEventStartDrag"
kEventEndDrag == "kEventEndDrag"
kEventIsDragging == "kEventIsDragging"
kEventHover == "kEventHover"

\* --------------------------------------------------------------- bounds

\* Pointers of the input system (InputSystem::kMaxSimultanuousPointers).
MaxPointers == 2
\* Elements one layout pass may create.
MaxElements == 3
\* Depth of the group stack.
MaxDepth == 2
\* Length of the element vector in the stand-alone checks of NextElement and
\* NextInteractiveElement.
MaxLen == 3
\* Children fed to one group in the stand-alone check of Extend.
MaxChildren == 3
\* Frames of one press that are kept.
MaxFrames == 4
Ids == {"a", "b"}
Directions == {kDirHorizontal, kDirVertical, kDirOverlay}
Alignments == {kAlignTop, kAlignCenter, kAlignBottom}
PointerIdx == 0 .. (MaxPointers - 1)

\* -------------------------------------------------------------- vectors

Max(a, b) == IF a >= b THEN a ELSE b
Min(a, b) == IF a <= b THEN a ELSE b
\* C++ integer division truncates towards zero.
CDiv(a, b) == IF a >= 0 THEN a \div b ELSE -((-a) \div b)
VAdd(u, v) == <<u[1] + v[1], u[2] + v[2]>>
VSub(u, v) == <<u[1] - v[1], u[2] - v[2]>>
VScale(u, k) == <<u[1] * k, u[2] * k>>
VMax(u, v) == <<Max(u[1], v[1]), Max(u[2], v[2])>>
VMin(u, v) == <<Min(u[1], v[1]), Min(u[2], v[2])>>
XY(m) == <<m[1], m[2]>>
ZW(m) == <<m[3], m[4]>>
\* mathfu::InRange2D: start <= val < end on both components.
InRange2D(val, start, end) ==
  /\ start[1] <= val[1] /\ val[1] < end[1]
  /\ start[2] <= val[2] /\ val[2] < end[2]

\* ------------------------------------------------- Group and Element

Group(direction, align, spacing, element_idx) ==
  [direction_ |-> direction, align_ |-> align, spacing_ |-> spacing,
   size_ |-> kZeros2i, position_ |-> kZeros2i,
   element_idx_ |-> element_idx, margin_ |-> kZeros4i]

Element(size, id) ==
  [size |-> size, extra_size |-> kZeros2i, id |-> id, interactive |-> FALSE]

EqualId(id1, id2) == id1 = id2

\* Group::Extend: the group g after a child of size `extension`.
Extend(g, extension) ==
  CASE g.direction_ = kDirHorizontal ->
         [g EXCEPT !.size_ =
            <<g.size_[1] + extension[1]
                + (IF g.size_[1] # 0 THEN g.spacing_ ELSE 0),
              Max(g.size_[2], extension[2])>>]
    [] g.direction_ = kDirVertical ->
         [g EXCEPT !.size_ =
            <<Max(g.size_[1], extension[1]),
              g.size_[2] + extension[2]
                + (IF g.size_[2] # 0 THEN g.spacing_ ELSE 0)>>]
    [] g.direction_ = kDirOverlay ->
         [g EXCEPT !.size_ = VMax(g.size_, extension)]

\* InternalState::AlignDimension: the offset along dimension dim (1 = x, 2 = y).
AlignDimension(align, dim, space) ==
  LET d == CASE align = kAlignTop -> 0
             [] align = kAlignCenter -> CDiv(space[dim], 2)
             [] align = kAlignBottom -> space[dim]
  IN  IF dim = 1 THEN <<d, 0>> ELSE <<0, d>>

\* InternalState::Advance: the group g with its cursor past a child.
Advance(g, size) ==
  CASE g.direction_ = kDirHorizontal ->
         [g EXCEPT !.position_ = VAdd(g.position_, <<size[1] + g.spacing_, 0>>)]
    [] g.direction_ = kDirVertical ->
         [g EXCEPT !.position_ = VAdd(g.position_, <<0, size[2] + g.spacing_>>)]
    [] g.direction_ = kDirOverlay -> g

\* InternalState::Position: where group g places `element`.
Position(g, element) ==
  LET pos == VAdd(g.position_, XY(g.margin_))
      space == VSub(VSub(VSub(g.size_, element.size), XY(g.margin_)),
                    ZW(g.margin_))
  IN  CASE g.direction_ = kDirHorizontal ->
             VAdd(pos, AlignDimension(g.align_, 2, space))
        [] g.direction_ = kDirVertical ->
             VAdd(pos, AlignDimension(g.align_, 1, space))
        [] g.direction_ = kDirOverlay ->
             VAdd(VAdd(pos, AlignDimension(g.align_, 1, space)),
                  AlignDimension(g.align_, 2, space))

\* InternalState::NewElement.
NewElement(elems, size, id) == Append(elems, Element(size, id))

\* The loop of NextElement: the index of the first element at or after `it`
\* whose id is `id`, or -1 when the scan reaches the end.
RECURSIVE NextElementScan(_, _, _)
NextElementScan(elems, it, id) ==
  IF it = Len(elems) THEN -1
  ELSE IF EqualId(elems[it + 1].id, id) THEN it
  ELSE NextElementScan(elems, it + 1, id)

\* Faulty variant of NextElement: the cursor stays on the element found.
NextElementNoAdvance(elems, it, id) ==
  LET m == NextElementScan(elems, it, id)
  IN  [element |-> m, element_it_ |-> IF m = -1 THEN it ELSE m]

\* Faulty variant of NextElement: the cursor is not restored after a miss.
NextElementNoRestore(elems, it, id) ==
  LET m == NextElementScan(elems, it, id)
  IN  [element |-> m, element_it_ |-> IF m = -1 THEN Len(elems) ELSE m + 1]

\* InternalState::NextElement from cursor `it`: the element found (its index,
\* -1 for nullptr) and the cursor afterwards.
NextElement(elems, it, id) ==
  LET backup == it
      m == NextElementScan(elems, it, id)
  IN  [element |-> m, element_it_ |-> IF m = -1 THEN backup ELSE m + 1]

\* ------------------------------------------------------ focus traversal

\* The loop of NextInteractiveElement, entered with loop variable i.  An index
\* outside 0 .. range-1 is read from memory the vector does not own: `oob` is
\* the value that read yields for the interactive flag, and the id read there
\* is kGarbageId.  The result carries the indices read.  The loop has no
\* state but i, so coming to an index already read means it never returns
\* (id kNoReturn).
RECURSIVE NextInteractiveLoop(_, _, _, _, _, _)
NextInteractiveLoop(elems, start, direction, i0, oob, reads) ==
  LET range == Len(elems)
      i1 == i0 + direction
      i == IF i1 < 0 THEN range - 1 ELSE IF i1 >= range THEN -1 ELSE i1
  IN  IF i = start THEN [id |-> kDummyId, reads |-> reads]
      ELSE IF i \in reads THEN [id |-> kNoReturn, reads |-> reads]
      ELSE IF i \in 0 .. (range - 1)
        THEN IF elems[i + 1].interactive
               THEN [id |-> elems[i + 1].id, reads |-> reads \cup {i}]
               ELSE NextInteractiveLoop(elems, start, direction, i, oob,
                                        reads \cup {i})
        ELSE IF oob
               THEN [id |-> kGarbageId, reads |-> reads \cup {i}]
               ELSE NextInteractiveLoop(elems, start, direction, i, oob,
                                        reads \cup {i})

\* InternalState::NextInteractiveElement.
NextInteractiveElement(elems, start, direction, oob) ==
  NextInteractiveLoop(elems, start, direction, start, oob, {})

\* InternalState::CheckButtons: the direction and the gamepad event.
CheckButtons(left, right, action, gamepad_event0) ==
  LET d1 == IF left.went_up THEN -1 ELSE 0
      d2 == IF right.went_up THEN 1 ELSE d1
      e1 == IF action.went_up THEN {kEventWentUp} ELSE gamepad_event0
      e2 == IF action.went_down THEN {kEventWentDown} ELSE e1
      e3 == IF action.is_down THEN {kEventIsDown} ELSE e2
  IN  [dir |-> d2, gamepad_event |-> e3]

\* The index of the first element whose id is `id` (the range-for of
\* CheckGamePadNavigation), or -1.
FirstWithId(elems, id) == NextElementScan(elems, 0, id)

\* CheckGamePadNavigation past its test of input_capture_: CheckButtons, then
\* the move of the focus.
Navigate(pers, elems, keys, gamepad_event0, oob) ==
  LET b == CheckButtons(keys.left, keys.right, keys.action, gamepad_event0)
      e == FirstWithId(elems, pers.input_focus_)
  IN  IF b.dir # 0 /\ e # -1
        THEN LET n == NextInteractiveElement(elems, e, b.dir, oob)
             IN  [persistent_ |-> [pers EXCEPT !.input_focus_ = n.id],
                  gamepad_event |-> b.gamepad_event, reads |-> n.reads]
        ELSE [persistent_ |-> pers, gamepad_event |-> b.gamepad_event,
              reads |-> {}]

\* Faulty variant of CheckGamePadNavigation: input_capture_ is not looked at.
CheckGamePadNavigationAlways(pers, elems, keys, gamepad_event0, oob) ==
  Navigate(pers, elems, keys, gamepad_event0, oob)

\* InternalState::CheckGamePadNavigation: the focus and the gamepad event after
\* it, given the keys of the frame.
CheckGamePadNavigation(pers, elems, keys, gamepad_event0, oob) ==
  IF pers.input_capture_ # kDummyId
    THEN [persistent_ |-> pers, gamepad_event |-> gamepad_event0, reads |-> {}]
    ELSE Navigate(pers, elems, keys, gamepad_event0, oob)

\* Faulty variant of CheckGamePadFocus: the focus is left as it is.
CheckGamePadFocusKeep(pers, elems, gamepad_has_focus, oob) == pers

\* InternalState::CheckGamePadFocus.  (The search from -1 forward ends at -1
\* again without reading there, so no call passes oob = TRUE.)
CheckGamePadFocus(pers, elems, gamepad_has_focus, oob) ==
  IF ~gamepad_has_focus
    THEN [pers EXCEPT
            !.input_focus_ = NextInteractiveElement(elems, -1, 1, oob).id]
    ELSE pers

\* ------------------------------------------------- capture and events
\* Faulty variant of RecordId: the id is not recorded.
RecordIdDropped(pers, id, i) == pers

\* InternalState::RecordId.  An index outside the table writes outside
\* PersistentState (pointer_element is its first member): the table and the
\* other fields keep their values.
RecordId(pers, id, i) ==
  IF i \in PointerIdx THEN [pers EXCEPT !.pointer_element[i] = id] ELSE pers

\* Faulty variant of SameId: any element passes for the one last pressed.
SameIdAlways(pers, id, i) == TRUE

\* InternalState::SameId.
SameId(pers, id, i) == EqualId(id, pers.pointer_element[i])

\* InternalState::CaptureInput (the text-input recording of the input system
\* is outside the model).
CaptureInput(pers, element_id) ==
  IF element_id # kDummyId
    THEN [pers EXCEPT !.input_capture_ = element_id]
    ELSE [pers EXCEPT !.input_capture_ = element_id, !.input_focus_ = kDummyId]

\* Faulty variant of CapturePointer: a capture is refused while another element holds it.
CapturePointerFirstWins(pers, element_id, current_pointer) ==
  IF pers.mouse_capture_ = kDummyId \/ element_id = kDummyId
    THEN RecordId([pers EXCEPT !.mouse_capture_ = element_id], element_id,
                  current_pointer)
    ELSE pers

\* InternalState::CapturePointer.
CapturePointer(pers, element_id, current_pointer) ==
  RecordId([pers EXCEPT !.mouse_capture_ = element_id], element_id,
           current_pointer)

\* Faulty variant of CanReceivePointerEvent: the capture is not looked at.
CanReceiveAlways(pers, element_id) == TRUE

\* ReleasePointer: Gui()->CapturePointer(kDummyId).
ReleasePointer(pers, current_pointer) ==
  CapturePointer(pers, kDummyId, current_pointer)

CanReceivePointerEvent(pers, element_id) ==
  pers.mouse_capture_ = kDummyId \/ EqualId(pers.mouse_capture_, element_id)

IsPointerCaptured(pers, element_id) == EqualId(pers.mouse_capture_, element_id)

drag_start_threshold_ ==
  <<kDragStartThresholdDefault, kDragStartThresholdDefault>>

\* Faulty variant of PointerHit: the clip flags of the pointers are ignored.
PointerHitUnclipped(i, id, S) ==
  \/ /\ CanReceivePointerEvent(S.persistent_, id)
     /\ InRange2D(S.input_.pointers[i].mousepos, S.group_.position_,
                  VAdd(S.group_.position_, S.group_.size_))
  \/ IsPointerCaptured(S.persistent_, id)

\* The condition of the pointer loop of CheckEvent for pointer i.
PointerHit(i, id, S) ==
  \/ /\ CanReceivePointerEvent(S.persistent_, id)
     /\ S.clip_mouse_inside_[i]
     /\ InRange2D(S.input_.pointers[i].mousepos, S.group_.position_,
                  VAdd(S.group_.position_, S.group_.size_))
  \/ IsPointerCaptured(S.persistent_, id)

\* The body of the pointer loop of CheckEvent for pointer i: the event bits
\* (before the Hover default) and the persistent state afterwards.
PointerEvent(i, id, check_dragevent_only, S) ==
  LET p0 == S.persistent_
      button == S.input_.buttons[i]
      mousepos == S.input_.pointers[i].mousepos
      g == S.group_
  IN  IF p0.dragging_pointer_ = i
        THEN IF button.went_up
               THEN [event |-> {kEventEndDrag},
                     persistent_ |->
                       [p0 EXCEPT
                          !.dragging_pointer_ = kPointerIndexInvalid,
                          !.drag_start_position_ = kDragStartPoisitionInvalid]]
             ELSE IF button.is_down
               THEN [event |-> {kEventIsDragging}, persistent_ |-> p0]
             ELSE [event |-> {}, persistent_ |-> p0]
        ELSE
          LET down == ~check_dragevent_only /\ button.went_down
              p1 == IF down THEN RecordId(p0, id, i) ELSE p0
              up == ~check_dragevent_only /\ button.went_up /\ SameId(p1, id, i)
              isdown == /\ ~check_dragevent_only /\ ~up
                        /\ button.is_down /\ SameId(p1, id, i)
              p2 == IF isdown /\ p1.input_focus_ # id
                      THEN [CaptureInput(p1, kDummyId) EXCEPT !.input_focus_ = id]
                      ELSE p1
              p3 == IF button.went_down
                      THEN [p2 EXCEPT !.drag_start_position_ = mousepos]
                      ELSE p2
              dsp == p3.drag_start_position_
              startdrag ==
                /\ button.is_down
                /\ InRange2D(dsp, g.position_, VAdd(g.position_, g.size_))
                /\ ~InRange2D(mousepos, VSub(dsp, drag_start_threshold_),
                              VAdd(dsp, drag_start_threshold_))
              p4 == IF startdrag
                      THEN [p3 EXCEPT !.drag_start_position_ = mousepos,
                                      !.dragging_pointer_ = i]
                      ELSE p3
          IN  [event |->
                 (IF down THEN {kEventWentDown} ELSE {})
                   \cup (IF up THEN {kEventWentUp} ELSE {})
                   \cup (IF isdown THEN {kEventIsDown} ELSE {})
                   \cup (IF startdrag THEN {kEventStartDrag} ELSE {}),
               persistent_ |-> p4]

\* Faulty variant of Responds: the interactive flag is not looked at.
RespondsAlways(element) == TRUE

\* The test CheckEvent makes of the element in the render pass: elements
\* that are not interactive are given no event.
Responds(element) == element.interactive

\* InternalState::CheckEvent on the state S (the fields it reads): the event
\* returned and the fields it writes.
CheckEvent(check_dragevent_only, S) ==
  LET idx == S.group_.element_idx_
      element == S.elements_[idx + 1]
      id == element.id
      none == [event |-> kEventNone,
               elements_ |-> S.elements_,
               persistent_ |-> S.persistent_,
               gamepad_has_focus_element |-> S.gamepad_has_focus_element,
               current_pointer_ |-> S.current_pointer_]
      hits == {i \in 0 .. S.pointer_max_active_index_ : PointerHit(i, id, S)}
  IN  IF S.layout_pass_
        THEN [none EXCEPT
                !.elements_ = [S.elements_ EXCEPT ![idx + 1].interactive = TRUE]]
      ELSE IF ~Responds(element) THEN none
      ELSE IF hits # {}
        THEN LET i == CHOOSE j \in hits : \A k \in hits : j <= k
                 r == PointerEvent(i, id, check_dragevent_only, S)
             IN  [none EXCEPT
                    !.event = IF r.event = {} THEN {kEventHover} ELSE r.event,
                    !.persistent_ = r.persistent_,
                    !.gamepad_has_focus_element = TRUE,
                    !.current_pointer_ = i]
      ELSE IF EqualId(S.persistent_.input_focus_, id)
        THEN [none EXCEPT !.event = S.gamepad_event,
                          !.gamepad_has_focus_element = TRUE]
      ELSE none

\* --------------------------------------------------------------- floats
\* A float is a record: kind "fin" with the value n / d (d > 0, in lowest
\* terms), or "inf", "ninf", "nan".  The values the slider computes are
\* quotients of small integers and halves; their rounding to float keeps the
\* order against 0 and 1, which are exact.

RECURSIVE Gcd(_, _)
Gcd(a, b) == IF b = 0 THEN a ELSE Gcd(b, a % b)
Abs(a) == IF a < 0 THEN -a ELSE a

\* The finite float n / d, d # 0.
Fin(n, d) ==
  LET g == Gcd(Abs(n), Abs(d))
      sg == IF d < 0 THEN -1 ELSE 1
  IN  [kind |-> "fin", n |-> (sg * n) \div g, d |-> (sg * d) \div g]
FZero == Fin(0, 1)
FOne == Fin(1, 1)
FInf == [kind |-> "inf", n |-> 1, d |-> 0]
FNegInf == [kind |-> "ninf", n |-> -1, d |-> 0]
FNaN == [kind |-> "nan", n |-> 0, d |-> 0]

\* The float division (n / 2) / d of the slider: by +0.0 it yields an
\* infinity of the sign of the dividend, and NaN for 0 / 0.
FDivHalves(n, d) ==
  IF d # 0 THEN Fin(n, 2 * d)
  ELSE IF n > 0 THEN FInf
  ELSE IF n < 0 THEN FNegInf
  ELSE FNaN

\* operator< on floats: false when either side is NaN.
FLess(a, b) ==
  IF a.kind = "nan" \/ b.kind = "nan" THEN FALSE
  ELSE IF a.kind = "ninf" THEN b.kind # "ninf"
  ELSE IF a.kind = "inf" THEN FALSE
  ELSE IF b.kind = "ninf" THEN FALSE
  ELSE IF b.kind = "inf" THEN TRUE
  ELSE a.n * b.d < b.n * a.d

\* std::min(a, b) and std::max(a, b): (b < a) ? b : a and (a < b) ? b : a.
StdMin(a, b) == IF FLess(b, a) THEN b ELSE a
StdMax(a, b) == IF FLess(a, b) THEN b ELSE a

\* The quotient StartSlider computes: the pointer's place along the track.
SliderRaw(direction, mousepos, g) ==
  IF direction = kDirHorizontal
    THEN FDivHalves(2 * (mousepos[1] - g.position_[1]) - g.size_[2],
                    g.size_[1] - g.size_[2])
    ELSE FDivHalves(2 * (mousepos[2] - g.position_[2]) - g.size_[1],
                    g.size_[2] - g.size_[1])

\* Faulty variant of SliderValue: the quotient stored as it is.
SliderValueUnclamped(direction, mousepos, g) ==
  SliderRaw(direction, mousepos, g)

\* The value StartSlider stores: the quotient clamped.
SliderValue(direction, mousepos, g) ==
  StdMax(FZero, StdMin(FOne, SliderRaw(direction, mousepos, g)))

\* ---------------------------------------------------------------- state

VARIABLES
  pc,            \* where Run is: "idle", "pass1", "pass2" (inside the first /
                 \* second call of gui_definition) or "fatal" (assert failed)
  state,         \* the global InternalState *state is non-null
  layout_pass_, elements_, element_it_, group_stack_,
  group_,        \* the Group base sub-object of InternalState
  clip_position_, clip_size_, clip_inside_, clip_mouse_inside_,
  pointer_max_active_index_, gamepad_has_focus_element, gamepad_event,
  current_pointer_,
  persistent_,   \* InternalState::persistent_
  input_,        \* the InputSystem as read during the frame
  offset,        \* the caller's scroll offset handed to StartScroll
  value,         \* the caller's float handed to StartSlider
  description,   \* the widget calls gui_definition is written to issue (used
                 \* by the specifications that fix the UI code)
  \* history variables
  calls,         \* the value of layout_pass_ seen by each call of gui_definition
  script,        \* the widget calls of the layout pass, in order
  rpos,          \* how many of them the render pass has gone past
  same,          \* the render pass has so far issued exactly script[1 .. rpos]
  lastNext,      \* the last call of NextElement in the render pass
  placed,        \* the last placement (Position) of a matched element
  origins,       \* position_ of each open group when it was entered
  arg, ret,      \* arguments / result of the last traced call
  lastCapture,   \* the ids of the last two CapturePointer calls (kDummyId:
                 \* ReleasePointer, or none yet)
  ub,            \* the undefined accesses performed so far
  frames         \* the frames of the current press of pointer 0, the first
                 \* MaxFrames of them: the input of each and the events CheckEvent
                 \* returned in its render pass

runVars == <<pc, state, calls>>
frameVars == <<layout_pass_, elements_, element_it_, group_stack_, group_>>
clipVars == <<clip_position_, clip_size_, clip_inside_, clip_mouse_inside_>>
evVars == <<pointer_max_active_index_, gamepad_has_focus_element,
            gamepad_event, current_pointer_>>
extVars == <<persistent_, input_, offset, value, description>>
replayVars == <<script, rpos, same>>
traceVars == <<lastNext, placed, origins, arg, ret, lastCapture, ub, frames>>
vars == <<runVars, frameVars, clipVars, evVars, extVars, replayVars, traceVars>>

\* The fields of InternalState the helpers read.
St ==
  [layout_pass_ |-> layout_pass_, elements_ |-> elements_, group_ |-> group_,
   persistent_ |-> persistent_, input_ |-> input_,
   pointer_max_active_index_ |-> pointer_max_active_index_,
   clip_mouse_inside_ |-> clip_mouse_inside_,
   gamepad_has_focus_element |-> gamepad_has_focus_element,
   gamepad_event |-> gamepad_event, current_pointer_ |-> current_pointer_]

\* ---------------------------------------------------------------- input

ButtonIdle == [went_down |-> FALSE, is_down |-> FALSE, went_up |-> FALSE]
ButtonPress == [went_down |-> TRUE, is_down |-> TRUE, went_up |-> FALSE]
ButtonHold == [went_down |-> FALSE, is_down |-> TRUE, went_up |-> FALSE]
ButtonRelease == [went_down |-> FALSE, is_down |-> FALSE, went_up |-> TRUE]
Buttons == {ButtonIdle, ButtonPress, ButtonHold, ButtonRelease}

KeysIdle == [left |-> ButtonIdle, right |-> ButtonIdle, action |-> ButtonIdle]
FarAway == <<50, 50>>

\* A frame without any pointer or key activity, the pointers away from the UI.
QuietInput ==
  [pointers |-> [i \in PointerIdx |->
                   [mousepos |-> FarAway, mousedelta |-> kZeros2i]],
   buttons |-> [i \in PointerIdx |-> ButtonIdle],
   mousewheel_delta |-> kZeros2i,
   keys |-> KeysIdle]

\* PersistentState::PersistentState.  The object has static storage, so the
\* members the constructor does not assign (drag_start_position_) are zero.
PersistentStateInit ==
  [pointer_element |-> [i \in PointerIdx |-> kDummyId],
   input_focus_ |-> kDummyId, input_capture_ |-> kDummyId,
   mouse_capture_ |-> kDummyId,
   drag_start_position_ |-> kZeros2i,
   dragging_pointer_ |-> kPointerIndexInvalid]

\* No frames are kept / the frames are kept and none has been so far.
NoFrames == [keep |-> FALSE, log |-> <<>>]
KeepFrames == [keep |-> TRUE, log |-> <<>>]

NoNext == [k |-> 0, id |-> kDummyId, element |-> -1, first |-> FALSE]
NoPlaced == [valid |-> FALSE, pos |-> kZeros2i, size |-> kZeros2i,
             origin |-> kZeros2i, gsize |-> kZeros2i, margin |-> kZeros4i]

\* Before the first Run: no InternalState exists.
InitRun == pc = "idle" /\ state = FALSE /\ calls = <<>>

InitElements ==
  /\ layout_pass_ = TRUE /\ elements_ = <<>> /\ element_it_ = 0
  /\ group_stack_ = <<>>

InitGroup == group_ = Group(kDirVertical, kAlignLeft, 0, 0)

InitClipEv ==
  /\ clip_position_ = kZeros2i /\ clip_size_ = kZeros2i
  /\ clip_inside_ = FALSE
  /\ clip_mouse_inside_ = [i \in PointerIdx |-> TRUE]
  /\ pointer_max_active_index_ = kPointerIndexInvalid
  /\ gamepad_has_focus_element = FALSE
  /\ gamepad_event = {kEventHover}
  /\ current_pointer_ = kPointerIndexInvalid
  /\ input_ = QuietInput

InitExt ==
  /\ persistent_ = PersistentStateInit /\ offset = kZeros2i
  /\ value = FZero
  /\ description = <<>>

InitReplay == script = <<>> /\ rpos = 0 /\ same = TRUE

InitTrace ==
  /\ lastNext = NoNext /\ placed = NoPlaced /\ origins = <<kZeros2i>>
  /\ lastCapture = <<kDummyId, kDummyId>> /\ ub = {}

InitLog == InitTrace /\ frames = NoFrames

InitCall == arg = <<>> /\ ret = kEventNone

Init ==
  /\ InitRun /\ InitElements /\ InitGroup /\ InitClipEv /\ InitExt
  /\ InitReplay /\ InitLog /\ InitCall

\* ------------------------------------------------------------------ Run

\* The largest pointer index whose button is active (the mouse always is).
MaxActiveIndex(inp) ==
  LET act == {i \in PointerIdx :
                \/ inp.buttons[i].is_down \/ inp.buttons[i].went_down
                \/ inp.buttons[i].went_up} \cup {0}
  IN  CHOOSE i \in act : \A j \in act : j <= i

\* The frames kept after a Run begins with input inp: a press of pointer 0
\* starts them anew, a frame that follows one with the button down is added.
\* Each keeps the dragging_pointer_ the Run began with.
LogFrame(fr, inp, pers) ==
  IF ~fr.keep THEN fr
  ELSE IF inp.buttons[0].went_down
    THEN [fr EXCEPT !.log = <<[input |-> inp, events |-> <<>>,
                               dragging |-> pers.dragging_pointer_]>>]
  ELSE IF /\ fr.log # <<>> /\ Len(fr.log) < MaxFrames
          /\ fr.log[Len(fr.log)].input.buttons[0].is_down
    THEN [fr EXCEPT !.log = Append(@, [input |-> inp, events |-> <<>>,
                                       dragging |-> pers.dragging_pointer_])]
  ELSE [fr EXCEPT !.log = <<>>]

\* The frames kept after CheckEvent returned ev for the element id.
LogEvent(fr, id, ev) ==
  IF fr.log = <<>> THEN fr
  ELSE [fr EXCEPT !.log[Len(fr.log)].events =
                     Append(@, [id |-> id, event |-> ev])]

\* Run, up to the first call of gui_definition: InternalState::InternalState
\* with the input inp of this frame.
RunBegin(inp) ==
  /\ pc = "idle"
  /\ pc' = "pass1" /\ state' = TRUE
  /\ calls' = <<TRUE>>
  /\ layout_pass_' = TRUE /\ elements_' = <<>> /\ element_it_' = 0
  /\ group_stack_' = <<>>
  /\ group_' = Group(kDirVertical, kAlignLeft, 0, 0)
  /\ clip_position_' = kZeros2i /\ clip_size_' = kZeros2i
  /\ clip_inside_' = FALSE
  /\ clip_mouse_inside_' = [i \in PointerIdx |-> TRUE]
  /\ pointer_max_active_index_' = MaxActiveIndex(inp)
  /\ gamepad_has_focus_element' = FALSE
  /\ gamepad_event' = {kEventHover}
  /\ current_pointer_' = kPointerIndexInvalid
  /\ input_' = inp
  /\ script' = <<>> /\ rpos' = 0 /\ same' = TRUE
  /\ lastNext' = NoNext /\ placed' = NoPlaced /\ origins' = <<kZeros2i>>
  /\ frames' = LogFrame(frames, inp, persistent_)
  /\ UNCHANGED <<persistent_, offset, value, description, arg, ret, lastCapture, ub>>

\* Faulty variant of StartRenderPass: a single element counts as none.
StartRenderPassOffByOne(S, oob) ==
  IF Len(S.elements_) <= 1
    THEN [elements_ |-> S.elements_, group_ |-> S.group_,
          layout_pass_ |-> S.layout_pass_, element_it_ |-> 0,
          persistent_ |-> S.persistent_, gamepad_event |-> S.gamepad_event,
          reads |-> {}]
    ELSE
      LET elems == NewElement(S.elements_, kZeros2i, kSentinelId)
          nav == CheckGamePadNavigation(S.persistent_, elems, S.input_.keys,
                                        S.gamepad_event, oob)
      IN  [elements_ |-> elems,
           group_ |-> [S.group_ EXCEPT !.position_ = kZeros2i,
                                       !.size_ = elems[1].size],
           layout_pass_ |-> FALSE, element_it_ |-> 0,
           persistent_ |-> nav.persistent_,
           gamepad_event |-> nav.gamepad_event, reads |-> nav.reads]

\* InternalState::StartRenderPass past its assert: the fields it writes.
StartRenderPass(S, oob) ==
  IF Len(S.elements_) = 0
    THEN [elements_ |-> S.elements_, group_ |-> S.group_,
          layout_pass_ |-> S.layout_pass_, element_it_ |-> 0,
          persistent_ |-> S.persistent_, gamepad_event |-> S.gamepad_event,
          reads |-> {}]
    ELSE
      LET elems == NewElement(S.elements_, kZeros2i, kSentinelId)
          nav == CheckGamePadNavigation(S.persistent_, elems, S.input_.keys,
                                        S.gamepad_event, oob)
      IN  [elements_ |-> elems,
           group_ |-> [S.group_ EXCEPT !.position_ = kZeros2i,
                                       !.size_ = elems[1].size],
           layout_pass_ |-> FALSE, element_it_ |-> 0,
           persistent_ |-> nav.persistent_,
           gamepad_event |-> nav.gamepad_event, reads |-> nav.reads]

UbReads(reads, n) == IF \E i \in reads : i < 0 \/ i >= n
                       THEN {"elements_ read out of range"} ELSE {}

\* Run between the two calls of gui_definition: the first call returns,
\* StartRenderPass runs and gui_definition is called again.
EndPass1 ==
  /\ pc = "pass1"
  /\ IF Len(group_stack_) # 0
       THEN /\ pc' = "fatal"
            /\ UNCHANGED <<state, calls, frameVars, clipVars, evVars, extVars,
                           replayVars, traceVars>>
       ELSE \E oob \in BOOLEAN :
              LET r == StartRenderPass(St, oob)
              IN  /\ pc' = "pass2"
                  /\ elements_' = r.elements_
                  /\ group_' = r.group_
                  /\ layout_pass_' = r.layout_pass_
                  /\ element_it_' = r.element_it_
                  /\ persistent_' = r.persistent_
                  /\ gamepad_event' = r.gamepad_event
                  /\ calls' = Append(calls, r.layout_pass_)
                  /\ origins' = <<r.group_.position_>>
                  /\ ub' = ub \cup UbReads(r.reads, Len(r.elements_))
                  /\ UNCHANGED frames
                  /\ UNCHANGED <<state, group_stack_, clipVars,
                                 pointer_max_active_index_,
                                 gamepad_has_focus_element, current_pointer_,
                                 input_, offset, value, description, replayVars,
                                 lastNext, placed, arg, ret, lastCapture>>

\* Run after the second call of gui_definition: CheckGamePadFocus, then the
\* InternalState is destroyed.
EndPass2 ==
  /\ pc = "pass2"
  /\ persistent_' = CheckGamePadFocus(persistent_, elements_,
                                      gamepad_has_focus_element, FALSE)
  /\ UNCHANGED <<ub, frames>>
  /\ pc' = "idle" /\ state' = FALSE
  /\ UNCHANGED <<calls, frameVars, clipVars, evVars, input_, offset, value,
                 description, replayVars, lastNext, placed, origins, arg, ret,
                 lastCapture>>

\* -------------------------------------------------------------- widgets
\* The widget operations, each called from inside gui_definition.  They leave
\* script, rpos and same to the caller of the operation (see the descriptions
\* below).

InCallback == pc \in {"pass1", "pass2"}

\* Faulty variant of ClearInteractiveBefore: no flag is cleared.
ClearInteractiveNone(elems, element_idx) == elems

\* Clearing the interactive flag of elements 0 .. element_idx-1 (EndGroup of a
\* child of an overlay group).
ClearInteractiveBefore(elems, element_idx) ==
  [i \in 1 .. Len(elems) |->
     IF i - 1 < element_idx THEN [elems[i] EXCEPT !.interactive = FALSE]
     ELSE elems[i]]

\* What a placement records: where the element went and the group it went into.
Placement(g, element, origin) ==
  [valid |-> TRUE, pos |-> Position(g, element), size |-> element.size,
   origin |-> origin, gsize |-> g.size_, margin |-> g.margin_]

Top(stack) == stack[Len(stack)]
Pop(stack) == SubSeq(stack, 1, Len(stack) - 1)

\* InternalState::StartGroup.
StartGroup(direction, align, spacing, id) ==
  /\ InCallback
  /\ description = <<>> => Len(group_stack_) < MaxDepth
  /\ (description = <<>> /\ layout_pass_) => Len(elements_) < MaxElements
  /\ LET layout0 == Group(direction, align, spacing, Len(elements_))
         r == NextElement(elements_, element_it_, id)
         found == ~layout_pass_ /\ r.element # -1
         layout ==
           IF layout_pass_ THEN layout0
           ELSE IF found
             THEN [layout0 EXCEPT
                     !.position_ = Position(group_, elements_[r.element + 1]),
                     !.size_ = elements_[r.element + 1].size,
                     !.element_idx_ = r.element_it_ - 1]
             ELSE [layout0 EXCEPT !.element_idx_ = Len(elements_) - 1]
     IN  /\ group_stack_' = Append(group_stack_, group_)
         /\ elements_' = IF layout_pass_
                           THEN NewElement(elements_, kZeros2i, id)
                           ELSE elements_
         /\ element_it_' = IF layout_pass_ THEN element_it_ ELSE r.element_it_
         /\ group_' = layout
         /\ lastNext' = IF layout_pass_ THEN lastNext
                        ELSE [k |-> lastNext.k + 1, id |-> id,
                              element |-> r.element,
                              first |-> r.element = element_it_]
         /\ placed' = IF found
                        THEN Placement(group_, elements_[r.element + 1],
                                       Top(origins))
                        ELSE placed
         /\ origins' = Append(origins, layout.position_)
  /\ clip_position_' = kZeros2i
  /\ clip_size_' = kZeros2i
  /\ UNCHANGED <<runVars, layout_pass_, clip_inside_, clip_mouse_inside_,
                 evVars, extVars, arg, ret, lastCapture, ub,
                 frames>>

\* InternalState::EndGroup.
EndGroup ==
  /\ InCallback
  /\ IF Len(group_stack_) = 0
       THEN /\ pc' = "fatal"
            /\ UNCHANGED <<state, calls, frameVars, traceVars>>
       ELSE
         LET size == group_.size_
             margin == VAdd(XY(group_.margin_), ZW(group_.margin_))
             element_idx == group_.element_idx_
             parent == Top(group_stack_)
             size2 == VAdd(size, margin)
             sized == [elements_ EXCEPT ![element_idx + 1].size = size2]
         IN  /\ group_stack_' = Pop(group_stack_)
             /\ group_' = IF layout_pass_
                            THEN Extend(parent, size2)
                            ELSE Advance(parent, elements_[element_idx + 1].size)
             /\ elements_' =
                  IF layout_pass_
                    THEN IF parent.direction_ = kDirOverlay
                           THEN ClearInteractiveBefore(sized, element_idx)
                           ELSE sized
                    ELSE elements_
             /\ origins' = Pop(origins)
             /\ UNCHANGED <<runVars, layout_pass_, element_it_, lastNext,
                            placed, arg, ret, lastCapture, ub,
                 frames>>
  /\ UNCHANGED <<clipVars, evVars, extVars>>

\* InternalState::SetMargin, with the margin in physical pixels.
SetMargin(margin) ==
  /\ InCallback
  /\ group_' = [group_ EXCEPT !.margin_ = margin]
  /\ UNCHANGED <<runVars, layout_pass_, elements_, element_it_, group_stack_,
                 clipVars, evVars, extVars, traceVars>>

\* InternalState::CustomElement (Image and Label lay out the same way): a leaf
\* of the given physical size.
CustomElement(size, id) ==
  /\ InCallback
  /\ (description = <<>> /\ layout_pass_) => Len(elements_) < MaxElements
  /\ LET r == NextElement(elements_, element_it_, id)
         found == ~layout_pass_ /\ r.element # -1
     IN  /\ elements_' = IF layout_pass_ THEN NewElement(elements_, size, id)
                         ELSE elements_
         /\ element_it_' = IF layout_pass_ THEN element_it_ ELSE r.element_it_
         /\ group_' = IF layout_pass_ THEN Extend(group_, size)
                      ELSE IF found
                        THEN Advance(group_, elements_[r.element + 1].size)
                        ELSE group_
         /\ lastNext' = IF layout_pass_ THEN lastNext
                        ELSE [k |-> lastNext.k + 1, id |-> id,
                              element |-> r.element,
                              first |-> r.element = element_it_]
         /\ placed' = IF found
                        THEN Placement(group_, elements_[r.element + 1],
                                       Top(origins))
                        ELSE placed
  /\ UNCHANGED <<runVars, layout_pass_, group_stack_, clipVars, evVars,
                 extVars, origins, arg, ret, lastCapture, ub,
                 frames>>

\* The interactive flag of element idx forced to TRUE (StartScroll does so
\* around its CheckEvent and puts the flag back).
ForceInteractive(elems, idx) == [elems EXCEPT ![idx + 1].interactive = TRUE]

\* StartScroll in the render pass, from the scroll step on (lines 736-756):
\* the offset is moved by pointer_delta * scroll_speed and clamped, the pointers
\* outside the region are masked, and the group starts at the shifted position.
\* p is the PersistentState and captures the CapturePointer ids so far.
ScrollPane(psize, off, S, ev, p, captures, pointer_delta, scroll_speed) ==
  [offset |-> VMin(S.elements_[S.group_.element_idx_ + 1].extra_size,
                   VMax(kZeros2i,
                        VSub(off, VScale(pointer_delta, scroll_speed)))),
   persistent_ |-> p,
   gamepad_has_focus_element |-> ev.gamepad_has_focus_element,
   current_pointer_ |-> ev.current_pointer_,
   clip_mouse_inside_ |->
     [i \in PointerIdx |->
        IF i <= S.pointer_max_active_index_
             /\ ~InRange2D(S.input_.pointers[i].mousepos, S.group_.position_,
                           VAdd(S.group_.position_, psize))
          THEN FALSE ELSE S.clip_mouse_inside_[i]],
   clip_size_ |-> psize,
   clip_position_ |-> S.group_.position_,
   size_ |-> psize,
   captures |-> captures]

\* StartScroll in the render pass after 'if (event & kEventStartDrag)'
\* (lines 722-734): p1 is the PersistentState then, captures the ids handed to
\* CapturePointer.
ScrollInput(psize, off, S, ev, p1, captures) ==
  IF IsPointerCaptured(p1, S.elements_[S.group_.element_idx_ + 1].id)
    THEN IF kEventEndDrag \in ev.event
           THEN ScrollPane(psize, off, S, ev,
                           ReleasePointer(p1, ev.current_pointer_),
                           captures \o <<kDummyId>>,
                           S.input_.pointers[0].mousedelta,
                           kScrollSpeedDragDefault)
           ELSE ScrollPane(psize, off, S, ev, p1, captures,
                           S.input_.pointers[0].mousedelta,
                           kScrollSpeedDragDefault)
    ELSE IF InRange2D(S.input_.pointers[0].mousepos, S.group_.position_,
                      VAdd(S.group_.position_, psize))
           THEN ScrollPane(psize, off, S, ev, p1, captures,
                           S.input_.mousewheel_delta,
                           -kScrollSpeedWheelgDefault)
           ELSE ScrollPane(psize, off, S, ev, p1, captures, kZeros2i,
                           kScrollSpeedDragDefault)

\* StartScroll in the render pass after its CheckEvent(true) returned ev
\* (lines 717-720).
ScrollEvent(psize, off, S, ev) ==
  IF kEventStartDrag \in ev.event
    THEN ScrollInput(psize, off, S, ev,
                     CapturePointer(ev.persistent_,
                                    S.elements_[S.group_.element_idx_ + 1].id,
                                    ev.current_pointer_),
                     <<S.elements_[S.group_.element_idx_ + 1].id>>)
    ELSE ScrollInput(psize, off, S, ev, ev.persistent_, <<>>)

\* The render-pass branch of StartScroll on state S with the caller's offset
\* off: the fields it writes, the offset, and the ids it handed to
\* CapturePointer (kDummyId: ReleasePointer).
StartScrollRender(psize, off, S) ==
  ScrollEvent(psize, off, S,
              CheckEvent(TRUE,
                         [S EXCEPT !.group_.size_ = psize,
                                   !.elements_ =
                                      ForceInteractive(S.elements_,
                                                       S.group_.element_idx_)]))

\* lastCapture after the CapturePointer calls with the ids of `ids`, in order.
RECURSIVE Captured(_, _)
Captured(last, ids) ==
  IF ids = <<>> THEN last
  ELSE Captured(<<last[2], ids[1]>>, Tail(ids))

\* InternalState::StartScroll, with the visible size in physical pixels.
StartScroll(psize) ==
  /\ InCallback
  /\ group_.element_idx_ < Len(elements_)
  /\ IF layout_pass_
       THEN /\ IF clip_inside_
                 THEN pc' = "fatal" /\ UNCHANGED <<clip_inside_, clip_size_>>
                 ELSE pc' = pc /\ clip_inside_' = TRUE /\ clip_size_' = psize
            /\ UNCHANGED <<group_, clip_position_, clip_mouse_inside_,
                           gamepad_has_focus_element, current_pointer_,
                           persistent_, offset, lastCapture>>
       ELSE \E r \in {StartScrollRender(psize, offset, St)} :
              /\ offset' = r.offset
              /\ persistent_' = r.persistent_
              /\ gamepad_has_focus_element' = r.gamepad_has_focus_element
              /\ current_pointer_' = r.current_pointer_
              /\ clip_mouse_inside_' = r.clip_mouse_inside_
              /\ clip_size_' = r.clip_size_
              /\ clip_position_' = r.clip_position_
              /\ group_' = [group_ EXCEPT
                              !.size_ = r.size_,
                              !.position_ = VSub(group_.position_, r.offset)]
              /\ lastCapture' = Captured(lastCapture, r.captures)
              /\ UNCHANGED <<pc, clip_inside_>>
  /\ UNCHANGED <<state, calls, layout_pass_, elements_, element_it_,
                 group_stack_, pointer_max_active_index_, gamepad_event,
                 input_, value, description, lastNext, placed, origins, arg,
                 ret, ub, frames>>

\* The layout-pass branch of EndScroll: the group and the elements after it.
EndScrollLayout(g, elems, clip_size) ==
  [group_ |-> [g EXCEPT !.size_ = clip_size],
   elements_ |-> [elems EXCEPT ![g.element_idx_ + 1].extra_size =
                                 VSub(g.size_, clip_size)]]

\* InternalState::EndScroll.  In the layout pass arg keeps the size the
\* content had measured to.
EndScroll ==
  /\ InCallback
  /\ group_.element_idx_ < Len(elements_)
  /\ IF layout_pass_
       THEN LET r == EndScrollLayout(group_, elements_, clip_size_)
            IN  /\ elements_' = r.elements_
                /\ group_' = r.group_
                /\ clip_inside_' = FALSE
                /\ arg' = [content |-> group_.size_]
                /\ UNCHANGED clip_mouse_inside_
       ELSE /\ clip_mouse_inside_' =
                  [i \in PointerIdx |->
                     IF i <= pointer_max_active_index_ THEN TRUE
                     ELSE clip_mouse_inside_[i]]
            /\ UNCHANGED <<elements_, group_, clip_inside_, arg>>
  /\ UNCHANGED <<runVars, layout_pass_, element_it_, group_stack_,
                 clip_position_, clip_size_, evVars, extVars, lastNext, placed,
                 origins, ret, lastCapture, ub,
                 frames>>

\* The free function CheckEvent(check_dragevent_only) called by the
\* description for the current group; ret keeps the event returned.
CheckEventCall(check_dragevent_only) ==
  /\ InCallback
  /\ group_.element_idx_ < Len(elements_)
  /\ LET r == CheckEvent(check_dragevent_only, St)
     IN  /\ elements_' = r.elements_
         /\ persistent_' = r.persistent_
         /\ gamepad_has_focus_element' = r.gamepad_has_focus_element
         /\ current_pointer_' = r.current_pointer_
         /\ ret' = r.event
         /\ frames' = IF layout_pass_ THEN frames
                       ELSE LogEvent(frames,
                                     elements_[group_.element_idx_ + 1].id,
                                     r.event)
  /\ UNCHANGED <<runVars, layout_pass_, element_it_, group_stack_, group_,
                 clipVars, pointer_max_active_index_, gamepad_event, input_,
                 offset, value, description, lastNext, placed, origins, arg,
                 lastCapture, ub>>

UbRecordId(i) == IF i \in PointerIdx THEN {}
                 ELSE {"pointer_element written out of range"}

\* The free function CapturePointer(element_id) called by the description.
CapturePointerCall(element_id) ==
  /\ InCallback
  /\ persistent_' = CapturePointer(persistent_, element_id, current_pointer_)
  /\ lastCapture' = Captured(lastCapture, <<element_id>>)
  /\ ub' = ub \cup UbRecordId(current_pointer_)
  /\ UNCHANGED frames
  /\ UNCHANGED <<runVars, frameVars, clipVars, evVars, input_, offset, value,
                 description, replayVars, lastNext, placed, origins, arg, ret>>

\* The free function ReleasePointer() called by the description.
ReleasePointerCall ==
  /\ InCallback
  /\ persistent_' = ReleasePointer(persistent_, current_pointer_)
  /\ lastCapture' = Captured(lastCapture, <<kDummyId>>)
  /\ ub' = ub \cup UbRecordId(current_pointer_)
  /\ UNCHANGED frames
  /\ UNCHANGED <<runVars, frameVars, clipVars, evVars, input_, offset, value,
                 description, replayVars, lastNext, placed, origins, arg, ret>>

\* InternalState::StartSlider on the state S: what CheckEvent(false) yields,
\* the capture taken or released on it, and the value stored.
StartSliderOn(direction, val, ev, S) ==
  LET id == S.elements_[S.group_.element_idx_ + 1].id
      startdrag == ~S.layout_pass_ /\ kEventStartDrag \in ev.event
      enddrag == ~S.layout_pass_ /\ ~startdrag /\ kEventEndDrag \in ev.event
      moves == /\ ~S.layout_pass_
               /\ ev.event \cap {kEventIsDragging, kEventWentDown,
                                 kEventIsDown} # {}
  IN  [event |-> ev.event,
       fatal |-> moves /\ direction \notin {kDirHorizontal, kDirVertical},
       elements_ |-> ev.elements_,
       gamepad_has_focus_element |-> ev.gamepad_has_focus_element,
       current_pointer_ |-> ev.current_pointer_,
       persistent_ |->
         IF startdrag
           THEN CapturePointer(ev.persistent_, id, ev.current_pointer_)
         ELSE IF enddrag
           THEN ReleasePointer(ev.persistent_, ev.current_pointer_)
         ELSE ev.persistent_,
       captures |-> IF startdrag THEN <<id>>
                    ELSE IF enddrag THEN <<kDummyId>> ELSE <<>>,
       value |-> IF moves /\ direction \in {kDirHorizontal, kDirVertical}
                   THEN SliderValue(direction, S.input_.pointers[0].mousepos,
                                    S.group_)
                   ELSE val]

\* The free function StartSlider(direction, &value) called by the description
\* for the current group.  arg keeps the value handed in, the pass and the
\* group the call was made in.
StartSlider(direction) ==
  /\ InCallback
  /\ group_.element_idx_ < Len(elements_)
  /\ \E ev \in {CheckEvent(FALSE, St)} :
       \E r \in {StartSliderOn(direction, value, ev, St)} :
         /\ elements_' = r.elements_
         /\ persistent_' = r.persistent_
         /\ gamepad_has_focus_element' = r.gamepad_has_focus_element
         /\ current_pointer_' = r.current_pointer_
         /\ value' = r.value
         /\ pc' = IF r.fatal THEN "fatal" ELSE pc
         /\ arg' = [value |-> value, layout |-> layout_pass_,
                    group |-> group_]
         /\ ret' = r.event
         /\ lastCapture' = Captured(lastCapture, r.captures)
         /\ frames' = IF layout_pass_ THEN frames
                       ELSE LogEvent(frames,
                                     elements_[group_.element_idx_ + 1].id,
                                     r.event)
  /\ UNCHANGED <<state, calls, layout_pass_, element_it_, group_stack_,
                 group_, clipVars, pointer_max_active_index_, gamepad_event,
                 input_, offset, description, lastNext, placed, origins, ub>>

\* --------------------------------------------------------- descriptions
\* A UI description is the sequence of widget calls gui_definition issues.  The
\* layout pass records them in script; the render pass replays them, leaves
\* one out, or adds one (an event handler changed the control flow).

NoCall == [op |-> "", direction |-> "", align |-> "", spacing |-> 0,
           id |-> "", size |-> kZeros2i, margin |-> kZeros4i,
           dragonly |-> FALSE]
CallStartGroup(direction, align, spacing, id) ==
  [NoCall EXCEPT !.op = "StartGroup", !.direction = direction,
                 !.align = align, !.spacing = spacing, !.id = id]
CallEndGroup == [NoCall EXCEPT !.op = "EndGroup"]
CallSetMargin(margin) == [NoCall EXCEPT !.op = "SetMargin", !.margin = margin]
CallCustomElement(size, id) ==
  [NoCall EXCEPT !.op = "CustomElement", !.size = size, !.id = id]

CallStartScroll(size) == [NoCall EXCEPT !.op = "StartScroll", !.size = size]
CallEndScroll == [NoCall EXCEPT !.op = "EndScroll"]
CallCheckEvent(check_dragevent_only) ==
  [NoCall EXCEPT !.op = "CheckEvent", !.dragonly = check_dragevent_only]
CallStartSlider(direction) ==
  [NoCall EXCEPT !.op = "StartSlider", !.direction = direction]

Do(c) ==
  \/ c.op = "StartGroup" /\ StartGroup(c.direction, c.align, c.spacing, c.id)
  \/ c.op = "EndGroup" /\ EndGroup
  \/ c.op = "SetMargin" /\ SetMargin(c.margin)
  \/ c.op = "CustomElement" /\ CustomElement(c.size, c.id)
  \/ c.op = "StartScroll" /\ StartScroll(c.size)
  \/ c.op = "EndScroll" /\ EndScroll
  \/ c.op = "CheckEvent" /\ CheckEventCall(c.dragonly)
  \/ c.op = "StartSlider" /\ StartSlider(c.direction)

\* gui_definition issues call c in the layout pass.
Declare(c) ==
  /\ pc = "pass1"
  /\ Do(c)
  /\ script' = Append(script, c)
  /\ UNCHANGED <<rpos, same>>

\* gui_definition issues in the render pass the call it issued at this point of
\* the layout pass.
Replay ==
  /\ pc = "pass2"
  /\ rpos < Len(script)
  /\ Do(script[rpos + 1])
  /\ rpos' = rpos + 1
  /\ UNCHANGED <<script, same>>

\* gui_definition issues in the render pass a call the layout pass did not
\* issue at this point.
Insert(c) ==
  /\ pc = "pass2"
  /\ same
  /\ rpos < Len(script) => script[rpos + 1] # c
  /\ Do(c)
  /\ same' = FALSE
  /\ UNCHANGED <<script, rpos>>

\* gui_definition leaves out in the render pass the call it issued at this
\* point of the layout pass.
Skip ==
  /\ pc = "pass2"
  /\ same
  /\ rpos < Len(script)
  /\ rpos' = rpos + 1
  /\ same' = FALSE
  /\ UNCHANGED <<script, runVars, frameVars, clipVars, evVars, extVars,
                 traceVars>>

\* ------------------------------------------------- specification: frames
\* Whole frames over descriptions of groups and leaves, without input.  The
\* render pass may depart from the layout pass once.

GroupKinds == {<<kDirHorizontal, kAlignCenter, 1>>}
LeafSize == <<2, 1>>
\* An id the layout pass never uses.
FreshId == "n"

FlowCalls ==
  {CallStartGroup(k[1], k[2], k[3], id) : k \in GroupKinds, id \in Ids}
    \cup {CallEndGroup}
    \cup {CallCustomElement(LeafSize, id) : id \in Ids}

InsertCalls ==
  {CallStartGroup(kDirHorizontal, kAlignCenter, 1, FreshId),
   CallCustomElement(LeafSize, FreshId),
   CallEndGroup}

Next ==
  \/ RunBegin(QuietInput)
  \/ \E c \in FlowCalls : Declare(c)
  \/ Replay
  \/ \E c \in InsertCalls : Insert(c)
  \/ Skip
  \/ EndPass1
  \/ EndPass2

Spec == Init /\ [][Next]_vars

\* C1 (as stated): when Run has completed, gui_definition was called exactly
\* twice, the first call with the pass flag at layout and the second with the
\* pass flag at render, whatever the description created.
C1_TwoPassesAlwaysRender ==
  (pc = "idle" /\ calls # <<>>) => calls = <<TRUE, FALSE>>

\* C1 (amended): when Run has completed, gui_definition was called exactly
\* twice, the first call with the pass flag at layout; the second call saw the
\* pass flag at render when the layout pass created at least one element, and
\* at layout again when it created none.
C1_TwoPasses ==
  /\ pc = "pass1" => calls = <<TRUE>>
  /\ pc = "pass2" => Len(calls) = 2
  /\ Len(calls) = 2 =>
       /\ calls[1] = TRUE
       /\ calls[2] = (~ \E k \in 1 .. Len(script) :
                          script[k].op \in {"StartGroup", "CustomElement"})
  /\ (pc = "idle" /\ calls # <<>>) => Len(calls) = 2

\* A Run over an unchanged description of three elements has completed.
C1_Witness ==
  pc = "idle" /\ calls = <<TRUE, FALSE>> /\ Len(elements_) >= 3 /\ same

\* C2: while the render pass issues the calls of the layout pass in the same
\* order, the k-th NextElement returns the k-th element the layout pass
\* appended, found at the cursor (first comparison), and never nullptr.
C2_SameSequenceMatches ==
  (pc = "pass2" /\ ~layout_pass_ /\ same /\ lastNext.k > 0) =>
    /\ lastNext.element = lastNext.k - 1
    /\ lastNext.first
    /\ element_it_ = lastNext.k

\* The render pass has matched the third element of an unchanged description.
C2_Witness ==
  pc = "pass2" /\ ~layout_pass_ /\ same /\ lastNext.k = 3
    /\ lastNext.element = 2

\* ----------------------------------------------- specification: geometry
\* Whole frames over descriptions of groups of every direction with margins,
\* spacing and leaves of two sizes; the render pass repeats the layout pass
\* call for call (identical control flow), and there is no scroll region.  The
\* description is one top-level group, the element the root takes its size
\* from.

GeomKinds == {<<kDirHorizontal, kAlignCenter, 1>>,
              <<kDirHorizontal, kAlignBottom, 0>>,
              <<kDirVertical, kAlignTop, 1>>,
              <<kDirVertical, kAlignCenter, 0>>,
              <<kDirOverlay, kAlignCenter, 0>>,
              <<kDirOverlay, kAlignBottom, 1>>}
GeomMargin == <<1, 2, 1, 0>>
GeomSizes == {<<0, 1>>, <<2, 1>>}

GeomCalls ==
  {CallStartGroup(k[1], k[2], k[3], "a") : k \in GeomKinds}
    \cup {CallEndGroup, CallSetMargin(GeomMargin)}
    \cup {CallCustomElement(sz, "a") : sz \in GeomSizes}

\* SetMargin is issued right after the StartGroup of the group it is for.
DeclareGeom(c) ==
  /\ c.op = "SetMargin" =>
       (Len(script) > 0 /\ script[Len(script)].op = "StartGroup")
  /\ Len(group_stack_) = 0 => (c.op = "StartGroup" /\ Len(elements_) = 0)
  /\ Declare(c)

NextGeom ==
  \/ RunBegin(QuietInput)
  \/ \E c \in GeomCalls : DeclareGeom(c)
  \/ Replay
  \/ EndPass1
  \/ EndPass2

SpecGeom == Init /\ [][NextGeom]_vars

\* C5: in the render pass every matched element lies inside its enclosing
\* group: on both axes its position is at least the group's position plus the
\* leading margin, and its position plus its size is at most the group's
\* position plus the group's size minus the trailing margin.
C5_PlacedInsideGroup ==
  placed.valid =>
    \A d \in 1 .. 2 :
      /\ placed.pos[d] >= placed.origin[d] + placed.margin[d]
      /\ placed.pos[d] + placed.size[d]
           <= placed.origin[d] + placed.gsize[d] - placed.margin[d + 2]

\* ------------------------------------------------- specification: Extend
\* One group of the layout pass, of any direction and spacing, fed children
\* of any size through Extend; arg is the sequence of the sizes fed so far.

ExtendSpacings == {0, 2}
ExtendSizes == {<<0, 0>>, <<0, 2>>, <<1, 0>>, <<2, 1>>, <<3, 5>>}

InitExtend ==
  /\ pc = "pass1" /\ state = TRUE /\ calls = <<TRUE>>
  /\ InitElements /\ InitClipEv /\ InitExt /\ InitReplay /\ InitLog
  /\ group_ \in {Group(d, kAlignTop, sp, 0) :
                   d \in Directions, sp \in ExtendSpacings}
  /\ arg = <<>> /\ ret = <<>>

ExtendCall(size) ==
  /\ Len(arg) < MaxChildren
  /\ group_' = Extend(group_, size)
  /\ arg' = Append(arg, size)
  /\ UNCHANGED <<runVars, layout_pass_, elements_, element_it_, group_stack_,
                 clipVars, evVars, extVars, replayVars, lastNext, placed,
                 origins, ret, lastCapture, ub,
                 frames>>

NextExtend == \E size \in ExtendSizes : ExtendCall(size)

SpecExtend == InitExtend /\ [][NextExtend]_vars

RECURSIVE SumOf(_, _)
SumOf(sizes, d) ==
  IF sizes = <<>> THEN 0 ELSE sizes[1][d] + SumOf(Tail(sizes), d)
MaxOf(sizes, d) ==
  CHOOSE m \in {sizes[k][d] : k \in 1 .. Len(sizes)} :
    \A k \in 1 .. Len(sizes) : sizes[k][d] <= m

\* C4: after one or more Extend calls the size of the group along its primary
\* axis is the sum of the child sizes plus spacing * (childCount - 1) and its
\* cross size is the largest child cross size; an overlay group has the
\* largest child size on both axes.
C4_ExtendSumPlusSpacing ==
  Len(arg) >= 1 =>
    LET n == Len(arg)
        along(d) == SumOf(arg, d) + group_.spacing_ * (n - 1)
    IN  CASE group_.direction_ = kDirHorizontal ->
               group_.size_ = <<along(1), MaxOf(arg, 2)>>
          [] group_.direction_ = kDirVertical ->
               group_.size_ = <<MaxOf(arg, 1), along(2)>>
          [] group_.direction_ = kDirOverlay ->
               group_.size_ = <<MaxOf(arg, 1), MaxOf(arg, 2)>>

\* -------------------------------------------- specification: NextElement
\* The element vector of a render pass (ids of the layout pass, the sentinel
\* last) with the cursor anywhere, and NextElement called with any id.

RECURSIVE SeqsUpTo(_, _)
SeqsUpTo(S, n) ==
  IF n = 0 THEN {<<>>}
  ELSE LET shorter == SeqsUpTo(S, n - 1)
       IN  shorter \cup {Append(q, x) : q \in shorter, x \in S}

RenderVectors(S) ==
  {Append(q, Element(kZeros2i, kSentinelId)) : q \in SeqsUpTo(S, MaxLen) \ {<<>>}}

NoArgNext == [called |-> FALSE, id |-> kDummyId, it |-> 0]

InitNextElement ==
  /\ pc = "pass2" /\ state = TRUE /\ calls = <<TRUE, FALSE>>
  /\ layout_pass_ = FALSE
  /\ elements_ \in RenderVectors({Element(LeafSize, id) : id \in Ids})
  /\ element_it_ \in 0 .. Len(elements_)
  /\ group_stack_ = <<>>
  /\ InitGroup /\ InitClipEv /\ InitExt /\ InitReplay /\ InitLog
  /\ arg = NoArgNext /\ ret = -1

NextElementCall(id) ==
  LET r == NextElement(elements_, element_it_, id)
  IN  /\ arg' = [called |-> TRUE, id |-> id, it |-> element_it_]
      /\ ret' = r.element
      /\ element_it_' = r.element_it_
      /\ UNCHANGED <<runVars, layout_pass_, elements_, group_stack_, group_,
                     clipVars, evVars, extVars, replayVars, lastNext, placed,
                     origins, lastCapture, ub,
                 frames>>

NextNextElement == \E id \in Ids \cup {FreshId} : NextElementCall(id)

SpecNextElement == InitNextElement /\ [][NextNextElement]_vars

\* The indices at or after cursor `it` whose element has id `id`.
Candidates(elems, it, id) ==
  {j \in it .. (Len(elems) - 1) : elems[j + 1].id = id}

\* C3: NextElement(id) returns the first element at or after the cursor with
\* that id and leaves the cursor one past it; when there is none it returns
\* nullptr and leaves the cursor where it was.  The cursor never moves back.
C3_NextElementForwardOrRestore ==
  arg.called =>
    LET c == Candidates(elements_, arg.it, arg.id)
    IN  /\ c # {} =>
             /\ ret \in c /\ \A j \in c : ret <= j
             /\ element_it_ = ret + 1
        /\ c = {} => (ret = -1 /\ element_it_ = arg.it)
        /\ element_it_ >= arg.it

\* A call that missed after scanning at least two elements, the cursor being
\* put back.
C3_Witness ==
  arg.called /\ ret = -1 /\ arg.it + 2 <= Len(elements_)
    /\ element_it_ = arg.it

\* ------------------------------------- specification: focus traversal
\* The element vector as CheckGamePadNavigation and CheckGamePadFocus find it
\* (empty, or the elements of the layout pass and the sentinel), with any
\* interactive flags, and NextInteractiveElement called as those two call it:
\* forward from -1, or in either direction from the index of an element.

FocusIds == <<"a", "b", "c", "d", "e", "f">>

RECURSIVE FlagSeqs(_)
FlagSeqs(n) ==
  IF n = 0 THEN {<<>>}
  ELSE {Append(q, b) : q \in FlagSeqs(n - 1), b \in BOOLEAN}

FocusVector(flags) ==
  [k \in 1 .. (Len(flags) + 1) |->
     IF k <= Len(flags)
       THEN [Element(LeafSize, FocusIds[k]) EXCEPT !.interactive = flags[k]]
       ELSE Element(kZeros2i, kSentinelId)]

FocusVectors ==
  {<<>>} \cup {FocusVector(f) : f \in UNION {FlagSeqs(n) : n \in 1 .. MaxLen}}

NoArgFocus == [called |-> FALSE, start |-> -1, direction |-> 1, reads |-> {}]

InitFocus ==
  /\ pc = "pass2" /\ state = TRUE /\ calls = <<TRUE, FALSE>>
  /\ layout_pass_ = FALSE
  /\ elements_ \in FocusVectors
  /\ element_it_ = 0
  /\ group_stack_ = <<>>
  /\ InitGroup /\ InitClipEv /\ InitExt /\ InitReplay /\ InitLog
  /\ arg = NoArgFocus /\ ret = kDummyId

NextInteractiveElementCall(start, direction, oob) ==
  LET r == NextInteractiveElement(elements_, start, direction, oob)
  IN  /\ arg' = [called |-> TRUE, start |-> start, direction |-> direction,
                 reads |-> r.reads]
      /\ ret' = r.id
      /\ ub' = ub \cup UbReads(r.reads, Len(elements_))
      /\ UNCHANGED frames
      /\ UNCHANGED <<runVars, frameVars, clipVars, evVars, extVars,
                     replayVars, lastNext, placed, origins, lastCapture>>

NextFocus ==
  \E start \in -1 .. (Len(elements_) - 1), direction \in {-1, 1},
     oob \in BOOLEAN :
    /\ start = -1 => direction = 1
    /\ NextInteractiveElementCall(start, direction, oob)

SpecFocus == InitFocus /\ [][NextFocus]_vars

Interactive(elems) == {k \in 0 .. (Len(elems) - 1) : elems[k + 1].interactive}
MinOf(S) == CHOOSE m \in S : \A x \in S : m <= x
MaxIn(S) == CHOOSE m \in S : \A x \in S : x <= m

\* C10: started at the last interactive element going forward,
\* NextInteractiveElement returns the id of the first interactive element;
\* started at the first one going backward it returns the id of the last one;
\* when no element is interactive it returns kDummyId.
C10_FocusWrapsOnce ==
  arg.called =>
    LET I == Interactive(elements_)
    IN  /\ (I # {} /\ arg.direction = 1 /\ arg.start = MaxIn(I)) =>
             ret = elements_[MinOf(I) + 1].id
        /\ (I # {} /\ arg.direction = -1 /\ arg.start = MinOf(I)) =>
             ret = elements_[MaxIn(I) + 1].id
        /\ I = {} => ret = kDummyId


\* ------------------------------------------- specification SpecScroll
\* The frames of an application whose gui_definition is one group holding a
\* scroll region; the layout and the render pass issue the same calls.

ScrollSize == <<4, 10>>
ContentSmall == <<2, 1>>
ContentLarge == <<6, 12>>

\* What gui_definition issues between StartScroll and EndScroll.
ScrollBodies ==
  { <<>>,
    <<CallCustomElement(ContentSmall, "c")>>,
    <<CallCustomElement(ContentLarge, "c")>>,
    <<CallStartGroup(kDirVertical, kAlignLeft, 0, "b"),
      CallCustomElement(ContentLarge, "c"), CallEndGroup>>,
    <<CallStartScroll(ScrollSize)>> }

ScrollDescriptions ==
  { <<CallStartGroup(kDirVertical, kAlignLeft, 0, "a"),
      CallStartScroll(ScrollSize)>>
      \o body \o <<CallEndScroll, CallEndGroup>> : body \in ScrollBodies }

\* An input whose pointer 0 is at pos after moving by delta, its button in
\* state button, the wheel turned by wheel; the other pointers are idle.
PointerInput(pos, delta, button, wheel) ==
  [QuietInput EXCEPT !.pointers[0] = [mousepos |-> pos, mousedelta |-> delta],
                     !.buttons[0] = button,
                     !.mousewheel_delta = wheel]

DragTo == <<0, 9>>

ScrollInputs ==
  { QuietInput,
    PointerInput(kZeros2i, kZeros2i, ButtonIdle, <<0, 1>>),
    PointerInput(kZeros2i, kZeros2i, ButtonIdle, <<0, -1>>),
    PointerInput(kZeros2i, kZeros2i, ButtonPress, kZeros2i),
    PointerInput(DragTo, DragTo, ButtonHold, kZeros2i),
    PointerInput(kZeros2i, <<0, -9>>, ButtonHold, kZeros2i),
    PointerInput(kZeros2i, kZeros2i, ButtonRelease, kZeros2i) }

ScrollOffsets == {kZeros2i, <<1, 30>>}

InitScroll ==
  /\ InitRun /\ InitElements /\ InitGroup /\ InitClipEv
  /\ persistent_ = PersistentStateInit
  /\ offset \in ScrollOffsets /\ value = FZero
  /\ description \in ScrollDescriptions
  /\ InitReplay /\ InitLog /\ InitCall

\* gui_definition issues its next call in the layout pass.
DeclareNext ==
  /\ Len(script) < Len(description)
  /\ Declare(description[Len(script) + 1])

\* gui_definition has returned from the layout pass.
ReturnPass1 == Len(script) = Len(description) /\ EndPass1

\* gui_definition has returned from the render pass.
ReturnPass2 == rpos = Len(script) /\ EndPass2

NextScroll ==
  \/ \E inp \in ScrollInputs : RunBegin(inp)
  \/ DeclareNext
  \/ Replay
  \/ ReturnPass1
  \/ ReturnPass2

SpecScroll == InitScroll /\ [][NextScroll]_vars

\* The size handed to the last StartScroll of the calls cs.
RECURSIVE LastScrollSize(_)
LastScrollSize(cs) ==
  IF cs = <<>> THEN kZeros2i
  ELSE IF cs[Len(cs)].op = "StartScroll" THEN cs[Len(cs)].size
  ELSE LastScrollSize(SubSeq(cs, 1, Len(cs) - 1))

\* The last call issued in the layout pass is op.
Declared(op) ==
  pc = "pass1" /\ script # <<>> /\ script[Len(script)].op = op

\* The last call issued in the render pass is op.
Replayed(op) ==
  pc = "pass2" /\ ~layout_pass_ /\ rpos > 0 /\ script[rpos].op = op

\* The extra size recorded for the element of the current group.
ExtraSize == elements_[group_.element_idx_ + 1].extra_size

\* C6: after StartScroll in the render pass the offset is, in each dimension,
\* at least 0 and at most the extra size recorded for the region; a region
\* without content has extra size (0,0) and its offset stays (0,0).
C6_OffsetClamped ==
  Replayed("StartScroll") =>
    /\ \A d \in 1..2 : 0 <= offset[d] /\ offset[d] <= ExtraSize[d]
    /\ script[rpos + 1].op = "EndScroll" =>
         ExtraSize = kZeros2i /\ offset = kZeros2i

\* C7: after EndScroll in the layout pass the extra size recorded for the
\* region is max(0, content - visible) in each dimension, so never negative.
C7_ExtraSizeNonNegative ==
  Declared("EndScroll") =>
    /\ ExtraSize = VMax(kZeros2i, VSub(arg.content, LastScrollSize(script)))
    /\ \A d \in 1..2 : ExtraSize[d] >= 0

\* C8: after EndScroll in the layout pass the size of the group is the visible
\* size handed to the matching StartScroll, whatever the content measured to.
C8_SizeIsVisibleSize ==
  Declared("EndScroll") => group_.size_ = LastScrollSize(script)


\* ------------------------------------------ specification SpecCapture
\* The frames of an application whose gui_definition is a button or a scroll
\* region and whose event handlers capture and release the pointer.

ButtonSize == <<4, 10>>

CaptureDescriptions ==
  { <<CallStartGroup(kDirVertical, kAlignLeft, 0, "a"),
      CallCheckEvent(FALSE),
      CallCustomElement(ButtonSize, "c"),
      CallEndGroup>>,
    <<CallStartGroup(kDirVertical, kAlignLeft, 0, "a"),
      CallStartScroll(ScrollSize),
      CallCustomElement(ContentLarge, "c"),
      CallEndScroll,
      CallEndGroup>> }

\* A second finger goes down on the UI while the mouse is away.
TouchInput ==
  [QuietInput EXCEPT !.pointers[1] = [mousepos |-> <<1, 1>>,
                                      mousedelta |-> kZeros2i],
                     !.buttons[1] = ButtonPress]

CaptureInputs == ScrollInputs \cup {TouchInput}

InitCapture ==
  /\ InitRun /\ InitElements /\ InitGroup /\ InitClipEv
  /\ persistent_ = PersistentStateInit
  /\ offset = kZeros2i /\ value = FZero
  /\ description \in CaptureDescriptions
  /\ InitReplay /\ InitLog /\ InitCall

NextCapture ==
  \/ \E inp \in CaptureInputs : RunBegin(inp)
  \/ DeclareNext
  \/ Replay
  \/ ReturnPass1
  \/ ReturnPass2
  \/ \E id \in Ids : CapturePointerCall(id)
  \/ ReleasePointerCall

SpecCapture == InitCapture /\ [][NextCapture]_vars

\* The ids for which IsPointerCaptured answers true.
Capturing == {id \in Ids \cup {"c"} : IsPointerCaptured(persistent_, id)}

\* C9: at most one element holds the pointer capture: IsPointerCaptured is
\* true of the id of the last CapturePointer and of no other id, so after
\* CapturePointer(A), CapturePointer(B) it is false of A and true of B, and
\* after ReleasePointer it is true of no element.
C9_OneCapture ==
  /\ Cardinality(Capturing) <= 1
  /\ lastCapture[2] = kDummyId => Capturing = {}
  /\ lastCapture[2] # kDummyId => Capturing = {lastCapture[2]}
  /\ (lastCapture[1] # lastCapture[2] /\ lastCapture[1] # kDummyId) =>
       ~IsPointerCaptured(persistent_, lastCapture[1])

\* CapturePointer("a") was followed by CapturePointer("b").
C9_Witness ==
  /\ lastCapture = <<"a", "b">>
  /\ IsPointerCaptured(persistent_, "b")
  /\ ~IsPointerCaptured(persistent_, "a")


\* ------------------------------------------- specification SpecEvents
\* The frames of an application whose gui_definition is one button, a group
\* that calls CheckEvent; nothing captures the pointer.  The button of pointer
\* 0 goes down, is held and goes up as a button does, the pointer being on the
\* button, on it but beyond the drag threshold, or away from it.

ButtonDescription ==
  <<CallStartGroup(kDirVertical, kAlignLeft, 0, "a"),
    CallCheckEvent(FALSE),
    CallCustomElement(ButtonSize, "c"),
    CallEndGroup>>

PointerPlaces == {kZeros2i, DragTo, FarAway}

\* The button states that can follow the button state of the last frame.
ButtonsAfter(button) ==
  IF button.is_down THEN {ButtonHold, ButtonRelease}
  ELSE {ButtonIdle, ButtonPress}

\* The inputs a frame can have after the frame with input inp, the frames fr
\* of the press being kept: the last of the frames kept is left for the
\* release.
GestureInputs(inp, fr) ==
  { PointerInput(pos, kZeros2i, button, kZeros2i) :
      pos \in PointerPlaces,
      button \in {b \in ButtonsAfter(inp.buttons[0]) :
                    b = ButtonHold => Len(fr.log) < MaxFrames - 1} }

InitEvents ==
  /\ InitRun /\ InitElements /\ InitGroup /\ InitClipEv
  /\ persistent_ = PersistentStateInit
  /\ offset = kZeros2i /\ value = FZero
  /\ description = ButtonDescription
  /\ InitReplay /\ InitTrace /\ InitCall
  /\ frames = KeepFrames

NextEvents ==
  \/ \E inp \in GestureInputs(input_, frames) : RunBegin(inp)
  \/ DeclareNext
  \/ Replay
  \/ ReturnPass1
  \/ ReturnPass2

SpecEvents == InitEvents /\ [][NextEvents]_vars

\* The pointer of frame f is on the button.
OnButton(f) == InRange2D(f.input.pointers[0].mousepos, kZeros2i, ButtonSize)

\* The event CheckEvent returned for the button in frame f.
EventOf(f) == f.events[1].event

\* The frames of a press are complete: the Run of the last has returned.
FramesDone == pc = "idle" /\ frames.log # <<>>

\* The last frame kept is the one in which the button went up.
Released == frames.log[Len(frames.log)].input.buttons[0].went_up

\* No frame of the press reported the start of a drag, and no drag of the
\* pointer was in progress when the button went down.
NoDrag ==
  /\ frames.log[1].dragging # 0
  /\ \A k \in 1 .. Len(frames.log) :
       kEventStartDrag \notin EventOf(frames.log[k])

Beyond(f, g) ==
  ~InRange2D(f.input.pointers[0].mousepos,
             VSub(g.input.pointers[0].mousepos, drag_start_threshold_),
             VAdd(g.input.pointers[0].mousepos, drag_start_threshold_))

\* The frames of the press in which the button is held and the pointer is
\* beyond the drag threshold of the place the button went down at.
Moved ==
  {k \in 2 .. Len(frames.log) :
     /\ frames.log[k].input.buttons[0].is_down
     /\ Beyond(frames.log[k], frames.log[1])}

\* C12: a press on the button whose pointer, held on the button, moves beyond
\* the drag threshold reports StartDrag in the frame it does so and in no
\* other, IsDragging in every later frame with the button down, and EndDrag
\* in the frame the button goes up and in no other.
C12_DragOnce ==
  (/\ FramesDone
   /\ \A k \in 1 .. Len(frames.log) : OnButton(frames.log[k])
   /\ Moved # {}) =>
    LET L == frames.log
        m == CHOOSE k \in Moved : \A j \in Moved : k <= j
    IN  /\ \A k \in 1 .. Len(L) : (kEventStartDrag \in EventOf(L[k])) <=> k = m
        /\ \A k \in (m + 1) .. Len(L) :
             L[k].input.buttons[0].is_down => kEventIsDragging \in EventOf(L[k])
        /\ \A k \in 1 .. Len(L) :
             (kEventEndDrag \in EventOf(L[k])) <=>
               (k > m /\ L[k].input.buttons[0].went_up)

\* ------------------------------------------------ the end of the passes

\* C13: a Run completes only if the group stack was empty at the end of the
\* pass: a description that leaves a group open in the layout pass or in the
\* render pass makes Run fail.  (The stack EndPass2 leaves is the stack the
\* render pass ended with.)
C13_UnbalancedIsFatal ==
  (pc = "idle" /\ calls # <<>>) => Len(group_stack_) = 0

\* ---------------------------------------- specification SpecLifecycle
\* The frames of Spec, with gui_definition calling Run again and the
\* application calling a widget operation while no Run is executing.

\* Faulty variant of ConstructAccepted: a second InternalState is let in.
ConstructAlways(st) == TRUE

\* InternalState::InternalState passes its assert(!state).
ConstructAccepted(st) == ~st

\* Gui passes its assert(state).
GuiAccepted(st) == st

\* Run called from inside gui_definition: the constructor of the second
\* InternalState runs while the first is alive.
RunNested ==
  /\ InCallback
  /\ pc' = IF ConstructAccepted(state) THEN "nested" ELSE "fatal"
  /\ arg' = [call |-> "Run"]
  /\ UNCHANGED <<state, calls, frameVars, clipVars, evVars, extVars,
                 replayVars, lastNext, placed, origins, ret, lastCapture, ub,
                 frames>>

\* A widget operation called while no Run is executing: each of them starts
\* with Gui().
GuiOutsideRun ==
  /\ pc = "idle"
  /\ pc' = IF GuiAccepted(state) THEN "outside" ELSE "fatal"
  /\ arg' = [call |-> "Gui"]
  /\ UNCHANGED <<state, calls, frameVars, clipVars, evVars, extVars,
                 replayVars, lastNext, placed, origins, ret, lastCapture, ub,
                 frames>>

InitLifecycle ==
  /\ InitRun /\ InitElements /\ InitGroup /\ InitClipEv /\ InitExt
  /\ InitReplay /\ InitLog
  /\ arg = [call |-> ""] /\ ret = kEventNone

NextLifecycle ==
  \/ Next
  \/ RunNested
  \/ GuiOutsideRun

SpecLifecycle == InitLifecycle /\ [][NextLifecycle]_vars

\* C14: at most one evaluation is active: state is set exactly while a Run
\* executes, a Run begun inside gui_definition is never let in, and no widget
\* operation is let in while no Run executes; a Run that follows a Run that
\* has returned is let in (RunBegin is enabled whenever pc = "idle").
C14_OneEvaluation ==
  /\ pc \notin {"nested", "outside"}
  /\ pc \in {"pass1", "pass2"} => state
  /\ pc = "idle" => ~state /\ ENABLED RunBegin(QuietInput)

\* A Run begun inside the render pass of a Run has been rejected.
C14_Witness ==
  /\ pc = "fatal" /\ arg = [call |-> "Run"] /\ state
  /\ Len(calls) = 2 /\ Len(elements_) >= 2

\* --------------------------------------- specification SpecScrollNest
\* The frames of SpecScroll, for a gui_definition that opens two scroll
\* regions one after the other or one inside the other, and for one that
\* opens a second region inside the first in the render pass only.

ScrollNestDescriptions ==
  ScrollDescriptions \cup
    { <<CallStartGroup(kDirVertical, kAlignLeft, 0, "a"),
        CallStartScroll(ScrollSize),
        CallCustomElement(ContentLarge, "c"),
        CallEndScroll,
        CallStartScroll(ScrollSize),
        CallEndScroll,
        CallEndGroup>> }

InitScrollNest ==
  /\ InitRun /\ InitElements /\ InitGroup /\ InitClipEv
  /\ persistent_ = PersistentStateInit
  /\ offset \in ScrollOffsets /\ value = FZero
  /\ description \in ScrollNestDescriptions
  /\ InitReplay /\ InitLog /\ InitCall

\* gui_definition issues in the render pass a StartScroll right after the
\* StartScroll it issued in both passes.
NestInRender ==
  /\ rpos > 0
  /\ script[rpos].op = "StartScroll"
  /\ Insert(CallStartScroll(ScrollSize))

NextScrollNest ==
  \/ NextScroll
  \/ NestInRender

SpecScrollNest == InitScrollNest /\ [][NextScrollNest]_vars

\* Some StartScroll of the calls cs follows a StartScroll with no EndScroll
\* in between.
NestedIn(cs) ==
  \E i, j \in 1 .. Len(cs) :
    /\ i < j
    /\ cs[i].op = "StartScroll" /\ cs[j].op = "StartScroll"
    /\ \A k \in (i + 1) .. (j - 1) : cs[k].op # "EndScroll"

\* C15: a StartScroll issued while a scroll region is open is fatal, in the
\* layout pass (the calls issued so far nest) and in the render pass (the
\* render pass has issued a StartScroll inside the open region); a StartScroll
\* after EndScroll is let in, so nothing else is fatal.
C15_NestedScrollIsFatal ==
  /\ NestedIn(script) => pc = "fatal"
  /\ ~same => pc = "fatal"
  /\ pc = "fatal" => NestedIn(script) \/ ~same

\* ------------------------------------------- specification SpecSlider
\* Frames of a UI made of one slider: a group holding one element, with
\* StartSlider called for it.  The element is square (track length equal to
\* the knob extent), wider than high, or higher than wide; the pointer moves
\* between a few places with its button pressed, held and released; the
\* caller's value starts inside or outside [0,1].

SliderSizes == {<<4, 4>>, <<3, 3>>, <<8, 4>>, <<4, 8>>}
SliderDirections == {kDirHorizontal, kDirVertical, kDirOverlay}
SliderDescriptions ==
  { <<CallStartGroup(kDirHorizontal, kAlignLeft, 0, "s"),
      CallStartSlider(d),
      CallCustomElement(sz, "k"),
      CallEndGroup>> : d \in SliderDirections, sz \in SliderSizes }
SliderPlaces == {kZeros2i, <<2, 2>>, <<5, 1>>, <<3, 7>>, FarAway}
SliderInputs(inp) ==
  { PointerInput(pos, kZeros2i, button, kZeros2i) :
      pos \in SliderPlaces, button \in ButtonsAfter(inp.buttons[0]) }
SliderValues == {FZero, Fin(1, 2), FOne, Fin(2, 1)}

InitSlider ==
  /\ InitRun /\ InitElements /\ InitGroup /\ InitClipEv
  /\ persistent_ = PersistentStateInit
  /\ offset = kZeros2i
  /\ value \in SliderValues
  /\ description \in SliderDescriptions
  /\ InitReplay /\ InitLog /\ InitCall

NextSlider ==
  \/ \E inp \in SliderInputs(input_) : RunBegin(inp)
  \/ DeclareNext
  \/ Replay
  \/ ReturnPass1
  \/ ReturnPass2

SpecSlider == InitSlider /\ [][NextSlider]_vars

\* The float v lies in [0,1].
InUnit(v) == v.kind = "fin" /\ 0 <= v.n /\ v.n <= v.d

\* StartSlider has returned in the render pass of the frame under way.
SliderRendered ==
  pc \in {"pass2", "idle"} /\ arg # <<>> /\ ~arg.layout

\* The last StartSlider had an event that moves the knob.
KnobMoved == ret \cap {kEventIsDragging, kEventWentDown, kEventIsDown} # {}

\* Track length minus knob extent of the last StartSlider, and twice the
\* pointer's distance from the middle of the knob at the start of the track.
TrackLess ==
  IF description[2].direction = kDirHorizontal
    THEN arg.group.size_[1] - arg.group.size_[2]
    ELSE arg.group.size_[2] - arg.group.size_[1]
KnobOffset2 ==
  IF description[2].direction = kDirHorizontal
    THEN 2 * (input_.pointers[0].mousepos[1] - arg.group.position_[1])
           - arg.group.size_[2]
    ELSE 2 * (input_.pointers[0].mousepos[2] - arg.group.position_[2])
           - arg.group.size_[1]

\* v is the fraction KnobOffset2 / (2 * TrackLess) brought into [0,1].
IsClampedFraction(v) ==
  /\ InUnit(v)
  /\ TrackLess # 0 =>
       LET n == IF TrackLess > 0 THEN KnobOffset2 ELSE -KnobOffset2
           d == 2 * Abs(TrackLess)
       IN  IF n <= 0 THEN v = FZero
           ELSE IF n >= d THEN v = FOne
           ELSE v.n * d = n * v.d

\* How the last StartSlider of the render pass left the value: recomputed
\* and clamped on a drag, press or hold, as it was otherwise.
SliderEffect ==
  (SliderRendered /\ pc # "fatal") =>
    IF KnobMoved THEN IsClampedFraction(value) ELSE value = arg.value

\* The layout pass leaves the value as it was.
SliderLayoutKeeps ==
  (arg # <<>> /\ arg.layout) => value = arg.value

\* C16 (as stated): the value is within [0,1] after every call of StartSlider;
\* the render pass recomputes and clamps it on a drag, press or hold, also
\* when the track length minus the knob extent is zero; the layout pass and a
\* call without such an event leave it unchanged.
C16_ValueInUnit ==
  /\ arg # <<>> => InUnit(value)
  /\ SliderEffect
  /\ SliderLayoutKeeps

\* C16 (amended): a value within [0,1] before a call of StartSlider is within
\* [0,1] after it; the render pass recomputes and clamps it on a drag, press
\* or hold, also when the track length minus the knob extent is zero; the
\* layout pass and a call without such an event leave it unchanged, in range
\* or not.
C16_ValueStaysInUnit ==
  /\ (arg # <<>> /\ InUnit(arg.value)) => InUnit(value)
  /\ SliderEffect
  /\ SliderLayoutKeeps

\* A pressed pointer in the middle of the knob of a square slider: 0 / 0.
C16_Witness ==
  /\ SliderRendered /\ KnobMoved
  /\ description[2].direction \in {kDirHorizontal, kDirVertical}
  /\ TrackLess = 0 /\ KnobOffset2 = 0
  /\ ~InUnit(arg.value) /\ InUnit(value)

\* --------------------------------------------- specification SpecGate
\* The frames of an application whose gui_definition is two buttons, "a" above
\* "b", each a group that calls CheckEvent.  After drawing a button its event
\* handler may capture the pointer for it, or release the pointer.  The
\* pointer is on "a", on "b" or away; the action key is used as well.

GateDescription ==
  <<CallStartGroup(kDirVertical, kAlignLeft, 0, "a"),
    CallCheckEvent(FALSE),
    CallCustomElement(ButtonSize, "ca"),
    CallEndGroup,
    CallStartGroup(kDirVertical, kAlignLeft, 0, "b"),
    CallCheckEvent(FALSE),
    CallCustomElement(ButtonSize, "cb"),
    CallEndGroup>>
GateIds == {"a", "b"}
OnA == <<1, 1>>
OnB == <<1, 11>>
GatePlaces == {OnA, OnB, FarAway}
KeyAction == [KeysIdle EXCEPT !.action = ButtonPress]
GateInputs(inp) ==
  { [PointerInput(pos, kZeros2i, button, kZeros2i) EXCEPT !.keys = k] :
      pos \in GatePlaces, button \in ButtonsAfter(inp.buttons[0]),
      k \in {KeysIdle, KeyAction} }

InitGate ==
  /\ InitRun /\ InitElements /\ InitGroup /\ InitClipEv
  /\ persistent_ = PersistentStateInit
  /\ offset = kZeros2i /\ value = FZero
  /\ description = GateDescription
  /\ InitReplay /\ InitLog /\ InitCall

\* The render pass has just drawn the button id.
ButtonDrawn(id) ==
  /\ pc = "pass2" /\ rpos > 0 /\ script[rpos].op = "CustomElement"
  /\ elements_[group_.element_idx_ + 1].id = id

NextGate ==
  \/ \E inp \in GateInputs(input_) : RunBegin(inp)
  \/ DeclareNext
  \/ Replay
  \/ ReturnPass1
  \/ ReturnPass2
  \/ \E id \in GateIds : ButtonDrawn(id) /\ CapturePointerCall(id)
  \/ \E id \in GateIds : ButtonDrawn(id) /\ ReleasePointerCall

SpecGate == InitGate /\ [][NextGate]_vars

\* CheckEvent has just returned, in the render pass, for the button id.
JustChecked(id) ==
  /\ pc = "pass2" /\ rpos > 0 /\ script[rpos].op = "CheckEvent"
  /\ elements_[group_.element_idx_ + 1].id = id

\* The pointer of the frame is on the button drawn at `place`.
PointerOn(place) ==
  InRange2D(input_.pointers[0].mousepos, place, VAdd(place, ButtonSize))

\* The holder of the capture is given an event whether the pointer is on it
\* or not.
HolderReceives ==
  \A A \in GateIds :
    (IsPointerCaptured(persistent_, A) /\ JustChecked(A)) =>
      ret # kEventNone

\* C17 (as stated): while A holds the pointer capture, CheckEvent in the
\* render pass returns no event for any other element B, wherever the pointer
\* is, whatever its button does and whether B has the focus or not; A is given
\* pointer events also with the pointer outside its rectangle.
C17_OthersGetNothing ==
  /\ \A A, B \in GateIds :
       (A # B /\ IsPointerCaptured(persistent_, A) /\ JustChecked(B)) =>
         ret = kEventNone
  /\ HolderReceives

\* C17 (amended): while A holds the pointer capture, CheckEvent in the render
\* pass returns no pointer event for any other element B: it returns no event
\* when B has not the input focus, and the gamepad event of the frame (Hover,
\* or the event of the action key) when B has it; A is given pointer events
\* also with the pointer outside its rectangle.
C17_OthersGetNoPointerEvent ==
  /\ \A A, B \in GateIds :
       (A # B /\ IsPointerCaptured(persistent_, A) /\ JustChecked(B)) =>
         ret = IF EqualId(persistent_.input_focus_, B) THEN gamepad_event
               ELSE kEventNone
  /\ HolderReceives

\* "a" holds the capture and the pressed pointer is on "b", which has not the
\* focus: "b" is given nothing.
C17_Witness ==
  /\ IsPointerCaptured(persistent_, "a") /\ JustChecked("b")
  /\ PointerOn(<<0, 10>>) /\ input_.buttons[0].is_down
  /\ ~EqualId(persistent_.input_focus_, "b")
  /\ ret = kEventNone

\* "b" holds the capture, the pointer is off it and the focus elsewhere: "b"
\* is given an event.
HolderReceivesOutside ==
  /\ IsPointerCaptured(persistent_, "b") /\ JustChecked("b")
  /\ ~PointerOn(<<0, 10>>)
  /\ ~EqualId(persistent_.input_focus_, "b")
  /\ ret # kEventNone


\* ------------------------------------------ specification SpecOverlay
\* The frames of an application whose gui_definition holds an overlay group
\* "o" with one, two or three child groups, each a button that calls
\* CheckEvent; the first child may hold a button of its own, and a button "x"
\* may stand before the overlay group, outside it.

Button(id, leaf) ==
  <<CallStartGroup(kDirVertical, kAlignLeft, 0, id),
    CallCheckEvent(FALSE),
    CallCustomElement(ButtonSize, leaf),
    CallEndGroup>>
ButtonInButton(id, inner, leaf) ==
  <<CallStartGroup(kDirVertical, kAlignLeft, 0, id),
    CallCheckEvent(FALSE)>>
    \o Button(inner, leaf) \o <<CallEndGroup>>
Overlay(children) ==
  <<CallStartGroup(kDirOverlay, kAlignLeft, 0, "o"),
    CallCheckEvent(FALSE)>>
    \o children \o <<CallEndGroup>>
OverlayDescriptions ==
  { Button("x", "cx")
      \o Overlay(ButtonInButton("p", "q", "cq") \o Button("r", "cr")),
    Overlay(Button("p", "cp") \o Button("r", "cr") \o Button("s", "cs")),
    Button("x", "cx") \o Overlay(Button("p", "cp")) }

OverlayInputs(inp) ==
  { PointerInput(pos, kZeros2i, button, kZeros2i) :
      pos \in GatePlaces, button \in ButtonsAfter(inp.buttons[0]) }

InitOverlay ==
  /\ InitRun /\ InitElements /\ InitGroup /\ InitClipEv
  /\ persistent_ = PersistentStateInit
  /\ offset = kZeros2i /\ value = FZero
  /\ description \in OverlayDescriptions
  /\ InitReplay /\ InitLog /\ InitCall

NextOverlay ==
  \/ \E inp \in OverlayInputs(input_) : RunBegin(inp)
  \/ DeclareNext
  \/ Replay
  \/ ReturnPass1
  \/ ReturnPass2

SpecOverlay == InitOverlay /\ [][NextOverlay]_vars

\* How many groups are open before call i of the calls d.
RECURSIVE OpenBefore(_, _)
OpenBefore(d, i) ==
  IF i <= 1 THEN 0
  ELSE OpenBefore(d, i - 1)
         + (IF d[i - 1].op = "StartGroup" THEN 1
            ELSE IF d[i - 1].op = "EndGroup" THEN -1 ELSE 0)

\* Where the overlay group of d starts, and where its child groups start.
OverlayStart(d) ==
  CHOOSE i \in 1 .. Len(d) :
    d[i].op = "StartGroup" /\ d[i].direction = kDirOverlay
OverlayEnd(d) ==
  CHOOSE j \in 1 .. Len(d) :
    /\ j > OverlayStart(d) /\ d[j].op = "EndGroup"
    /\ OpenBefore(d, j) = OpenBefore(d, OverlayStart(d)) + 1
ChildStarts(d) ==
  {i \in (OverlayStart(d) + 1) .. (OverlayEnd(d) - 1) :
     /\ d[i].op = "StartGroup"
     /\ OpenBefore(d, i) = OpenBefore(d, OverlayStart(d)) + 1}
LastChildStart(d) == CHOOSE i \in ChildStarts(d) : \A j \in ChildStarts(d) : j <= i

\* The ids of the elements the calls d[from .. to] make.
IdsOf(d, from, to) ==
  {d[i].id : i \in {k \in from .. to :
                      d[k].op \in {"StartGroup", "CustomElement"}}}

\* The elements of the children of the overlay group other than the last,
\* with their descendants; and the groups that stand before the overlay
\* group, outside it.
EarlierChildren(d) == IdsOf(d, OverlayStart(d) + 1, LastChildStart(d) - 1)
OutsideBefore(d) ==
  {d[i].id : i \in {k \in 1 .. (OverlayStart(d) - 1) :
                      d[k].op = "StartGroup"}}

\* The layout pass is over.
LaidOut == pc \in {"pass2", "idle"} /\ Len(script) = Len(description)

\* C18: once the layout pass of an overlay group with two or more child
\* groups is over, no element of a child other than the last (the earlier
\* children and their descendants) is interactive, and CheckEvent returns no
\* event for any of them in the render pass.
C18_OnlyLastChildResponds ==
  Cardinality(ChildStarts(description)) >= 2 =>
    /\ LaidOut =>
         \A k \in 1 .. Len(elements_) :
           elements_[k].id \in EarlierChildren(description) =>
             ~elements_[k].interactive
    /\ \A id \in EarlierChildren(description) :
         JustChecked(id) => ret = kEventNone

\* The pointer goes down on the buttons, which lie on each other: the first
\* child, just asked, is given nothing.
C18_Witness ==
  /\ Cardinality(ChildStarts(description)) >= 2
  /\ JustChecked("p")
  /\ input_.buttons[0].went_down
  /\ InRange2D(input_.pointers[0].mousepos, group_.position_,
               VAdd(group_.position_, group_.size_))
  /\ ret = kEventNone

\* The last child is given the event of that press.
LastChildResponds ==
  /\ Cardinality(ChildStarts(description)) >= 2
  /\ JustChecked(description[LastChildStart(description)].id)
  /\ kEventWentDown \in ret


\* The groups for which the first n calls of d have called CheckEvent.
CheckedIn(d, n) ==
  {d[i].id : i \in {k \in 1 .. (n - 1) :
                      d[k].op = "StartGroup" /\ d[k + 1].op = "CheckEvent"}}

\* C19: closing a child of an overlay group in the layout pass changes the
\* interactive flag of the earlier children of that overlay group only: a
\* group that stands before the overlay group, outside it, and has called
\* CheckEvent stays interactive.
C19_OutsideKeepsFlag ==
  \A k \in 1 .. Len(elements_) :
    elements_[k].id \in
        OutsideBefore(description) \cap CheckedIn(script, Len(script)) =>
      elements_[k].interactive

\* --------------------------------------------- specification SpecEdit
\* The frames of an application whose gui_definition is two edit boxes, "a"
\* above "b": each a group that calls CheckEvent, draws its text, captures the
\* input when it has the focus and has not the capture yet, and gives the
\* capture up when the input system reports the text as finished.  The left,
\* right and action keys are used; the pointer presses on "b" or stays away.

\* InternalState::Edit after Label, in the render pass: the element in focus
\* takes the input capture.
EditCapture(id) ==
  /\ ButtonDrawn(id)
  /\ EqualId(persistent_.input_focus_, id)
  /\ persistent_.input_capture_ # id
  /\ persistent_' = CaptureInput(persistent_, id)
  /\ UNCHANGED <<runVars, frameVars, clipVars, evVars, input_, offset, value,
                 description, replayVars, traceVars>>

\* InternalState::Edit, in the render pass: HandleInputEvents reports the
\* input as finished.
EditFinish(id) ==
  /\ ButtonDrawn(id)
  /\ persistent_' = CaptureInput(persistent_, kDummyId)
  /\ UNCHANGED <<runVars, frameVars, clipVars, evVars, input_, offset, value,
                 description, replayVars, traceVars>>

EditKeys ==
  { [left |-> l, right |-> r, action |-> a] :
      l \in {ButtonIdle, ButtonRelease}, r \in {ButtonIdle, ButtonRelease},
      a \in {ButtonIdle, ButtonPress, ButtonRelease} }
EditInputs(inp) ==
  { [PointerInput(pos, kZeros2i, button, kZeros2i) EXCEPT !.keys = k] :
      pos \in {OnB, FarAway}, button \in ButtonsAfter(inp.buttons[0]),
      k \in EditKeys }

InitEdit ==
  /\ InitRun /\ InitElements /\ InitGroup /\ InitClipEv
  /\ persistent_ = PersistentStateInit
  /\ offset = kZeros2i /\ value = FZero
  /\ description = GateDescription
  /\ InitReplay /\ InitLog /\ InitCall

NextEdit ==
  \/ \E inp \in EditInputs(input_) : RunBegin(inp)
  \/ DeclareNext
  \/ Replay
  \/ ReturnPass1
  \/ ReturnPass2
  \/ \E id \in GateIds : EditCapture(id)
  \/ \E id \in GateIds : EditFinish(id)

SpecEdit == InitEdit /\ [][NextEdit]_vars

\* The keys of the frame ask for a move of the focus, or press, hold or
\* release the action key.
DirectionalInput == input_.keys.left.went_up \/ input_.keys.right.went_up
ActionInput ==
  \/ input_.keys.action.went_down \/ input_.keys.action.is_down
  \/ input_.keys.action.went_up

\* C20: a frame that comes to its render pass with the input captured
\* (input_capture_ holds an element id) does not move input_focus_ on the
\* directional keys and keeps the gamepad event at Hover, so that CheckEvent
\* has no WentDown, WentUp or IsDown of the action key to hand to the focused
\* element for the rest of the frame; a CheckEvent called while the input is
\* captured, the pointer being away, returns Hover or nothing.
C20_NoNavigationWhileCaptured ==
  [][/\ (pc = "pass1" /\ pc' = "pass2"
          /\ persistent_.input_capture_ # kDummyId) =>
          /\ persistent_'.input_focus_ = persistent_.input_focus_
          /\ gamepad_event' = {kEventHover}
     /\ pc = "pass2" => gamepad_event' = gamepad_event
     /\ (pc = "pass2" /\ rpos' = rpos + 1 /\ script[rpos'].op = "CheckEvent"
          /\ persistent_.input_capture_ # kDummyId
          /\ input_.pointers[0].mousepos = FarAway) =>
          ret' \subseteq {kEventHover}]_vars

\* The render pass of a frame with the right key and the action key has
\* begun while "a" holds the input capture and the focus, "b" being
\* interactive: the focus is still on "a" and the gamepad event is Hover.
C20_Witness ==
  /\ pc = "pass2" /\ rpos = 0
  /\ persistent_.input_capture_ = "a" /\ persistent_.input_focus_ = "a"
  /\ DirectionalInput /\ ActionInput
  /\ \E k \in 1 .. Len(elements_) :
       elements_[k].id = "b" /\ elements_[k].interactive
  /\ gamepad_event = {kEventHover}


\* ----------------------------------- specification SpecDefaultFocus
\* The frames of an application whose gui_definition is two buttons, an
\* overlay group of two buttons, or a group that never calls CheckEvent.  The
\* focus the application starts with is none, one of its buttons, or an
\* element "z" of a UI shown before that is declared no more.  The pointer
\* is on the buttons or away.

PlainDescription ==
  <<CallStartGroup(kDirVertical, kAlignLeft, 0, "a"),
    CallCustomElement(ButtonSize, "ca"),
    CallEndGroup>>
DefaultFocusDescriptions ==
  { GateDescription,
    Overlay(Button("p", "cp") \o Button("r", "cr")),
    PlainDescription }
StartingFocus == {kDummyId, "b", "p", "z"}

InitDefaultFocus ==
  /\ InitRun /\ InitElements /\ InitGroup /\ InitClipEv
  /\ \E f \in StartingFocus :
       persistent_ = [PersistentStateInit EXCEPT !.input_focus_ = f]
  /\ offset = kZeros2i /\ value = FZero
  /\ description \in DefaultFocusDescriptions
  /\ InitReplay /\ InitLog /\ InitCall

NextDefaultFocus ==
  \/ \E inp \in OverlayInputs(input_) : RunBegin(inp)
  \/ DeclareNext
  \/ Replay
  \/ ReturnPass1
  \/ ReturnPass2

SpecDefaultFocus == InitDefaultFocus /\ [][NextDefaultFocus]_vars

\* Run has returned.
RunDone == pc = "idle" /\ calls # <<>>

\* The id of the first interactive element of elems, kDummyId without one.
FirstInteractive(elems) ==
  LET ks == {k \in 1 .. Len(elems) : elems[k].interactive}
  IN  IF ks = {} THEN kDummyId
      ELSE elems[CHOOSE k \in ks : \A j \in ks : k <= j].id

\* The groups CheckEvent was called for in the render pass of the Run.
Dispatched == CheckedIn(script, rpos + 1)

\* C21 (as stated): when Run returns and no element held the focus in the
\* frame (input_focus_ was kDummyId or the id of an element CheckEvent was not
\* called for in the render pass), input_focus_ is the id of the first
\* interactive element, or kDummyId when no element is interactive.  Nothing
\* but that resolution changes the focus at the end of Run, so after Run the
\* focus is the first interactive element or an element that was dispatched.
C21_DefaultFocus ==
  RunDone =>
    \/ persistent_.input_focus_ = FirstInteractive(elements_)
    \/ persistent_.input_focus_ \in Dispatched

\* C21 (amended): the same, when in addition no pointer event was given to
\* any element in the frame (current_pointer_ is still kPointerIndexInvalid);
\* the resolution runs exactly when gamepad_has_focus_element is false.
C21_DefaultFocusUnlessPointer ==
  RunDone =>
    /\ \/ persistent_.input_focus_ = FirstInteractive(elements_)
       \/ persistent_.input_focus_ \in Dispatched
       \/ current_pointer_ # kPointerIndexInvalid
    /\ ~gamepad_has_focus_element =>
         persistent_.input_focus_ = FirstInteractive(elements_)

\* A Run without pointer event has returned and the focus is on the first
\* interactive element, the second child of the overlay group.
C21_Witness ==
  /\ RunDone
  /\ ~gamepad_has_focus_element /\ current_pointer_ = kPointerIndexInvalid
  /\ persistent_.input_focus_ = "r"
  /\ FirstInteractive(elements_) = "r"


\* CheckEvent has just returned for the element id an event that came from a
\* pointer: some active pointer passes the hit test of the element.
PointerDerived(id) ==
  /\ JustChecked(id)
  /\ \E i \in 0 .. pointer_max_active_index_ : PointerHit(i, id, St)

\* C22: when CheckEvent reports a WentUp or IsDown that came from a pointer
\* for an element E that holds not the input capture, then on return
\* input_focus_ is E and input_capture_ is held by no element other than E.
C22_ClickToFocus ==
  \A E \in GateIds :
    (/\ PointerDerived(E)
     /\ ret \cap {kEventWentUp, kEventIsDown} # {}
     /\ persistent_.input_capture_ # E) =>
      /\ persistent_.input_focus_ = E
      /\ persistent_.input_capture_ = kDummyId


\* The render pass has just entered a group whose id matched no element: the
\* group refers to the last element, the sentinel.
Anchored ==
  /\ pc = "pass2" /\ ~layout_pass_
  /\ lastNext.id = FreshId /\ lastNext.element = -1
  /\ Len(group_stack_) > 0
  /\ group_.element_idx_ = Len(elements_) - 1

\* The elements of elems that are the sentinel.
Sentinels(elems) == {k \in 1 .. Len(elems) : elems[k].id = kSentinelId}

\* C23: the render pass runs over an element sequence that ends in exactly
\* one sentinel of size (0,0), and a group entered in the render pass whose
\* id matches no element is anchored to it: its size is (0,0) and its
\* position is the cursor of its parent group at the moment of StartGroup.
C23_AnchoredAtParentCursor ==
  /\ (pc = "pass2" /\ ~layout_pass_) =>
       /\ Sentinels(elements_) = {Len(elements_)}
       /\ elements_[Len(elements_)].size = kZeros2i
  /\ Anchored =>
       /\ group_.size_ = kZeros2i
       /\ group_.position_ = Top(group_stack_).position_


\* The step is a call of CheckEvent in the layout pass.
CheckEventInLayout ==
  /\ pc = "pass1" /\ Len(script') = Len(script) + 1
  /\ script'[Len(script')].op = "CheckEvent"

\* The step is a call of CheckEvent in the render pass for an element that is
\* not interactive.
CheckEventOfInert ==
  /\ pc = "pass2" /\ rpos' = rpos + 1
  /\ script[rpos'].op = "CheckEvent"
  /\ ~elements_[group_.element_idx_ + 1].interactive

\* C24: CheckEvent called in the layout pass, or in the render pass for an
\* element that is not interactive, returns no event and leaves every field
\* of PersistentState as it was.
C24_EventsOnlyWhenInteractive ==
  [][(CheckEventInLayout \/ CheckEventOfInert) =>
       ret' = kEventNone /\ persistent_' = persistent_]_vars

\* The first child of the overlay group, not interactive, has been asked
\* while the pointer went down on it, and an earlier click had set the focus:
\* no event, and the press is not recorded for it.
C24_Witness ==
  /\ JustChecked("p")
  /\ ~elements_[group_.element_idx_ + 1].interactive
  /\ input_.buttons[0].went_down
  /\ PointerHit(0, "p", St)
  /\ persistent_.input_focus_ # kDummyId
  /\ persistent_.pointer_element[0] # "p"
  /\ ret = kEventNone


\* ------------------------------------------ specification SpecPairing
\* The frames of an application whose gui_definition is two buttons, "a" above
\* "b", each a group that calls CheckEvent; nothing captures the pointer.  The
\* button of pointer 0 goes down, is held and goes up, the pointer being on
\* "a", at two places of "b" that lie beyond the drag threshold of each other,
\* or away from both.  The frames of the press under way are kept.

FarOnB == <<1, 19>>
PairPlaces == {OnA, OnB, FarOnB, FarAway}
PairInputs(inp, fr) ==
  { PointerInput(pos, kZeros2i, button, kZeros2i) :
      pos \in PairPlaces,
      button \in {b \in ButtonsAfter(inp.buttons[0]) :
                    b = ButtonHold => Len(fr.log) < MaxFrames - 1} }

InitPairing ==
  /\ InitRun /\ InitElements /\ InitGroup /\ InitClipEv
  /\ persistent_ = PersistentStateInit
  /\ offset = kZeros2i /\ value = FZero
  /\ description = GateDescription
  /\ InitReplay /\ InitTrace /\ InitCall
  /\ frames = KeepFrames

NextPairing ==
  \/ \E inp \in PairInputs(input_, frames) : RunBegin(inp)
  \/ DeclareNext
  \/ Replay
  \/ ReturnPass1
  \/ ReturnPass2

SpecPairing == InitPairing /\ [][NextPairing]_vars

\* Where the buttons are drawn.
PlaceOf(id) == IF id = "a" THEN kZeros2i ELSE <<0, 10>>
Within(pos, id) == InRange2D(pos, PlaceOf(id), VAdd(PlaceOf(id), ButtonSize))

\* The frame under way belongs to a press of pointer 0 that began at PressedAt.
Pressing == frames.log # <<>>
PressedAt == frames.log[1].input.pointers[0].mousepos

ReleaseFrameDone == pc = "idle" /\ calls # <<>> /\ input_.buttons[0].went_up

\* C28: after the frame in which the button of the dragging pointer goes up
\* no pointer is recorded as dragging, wherever the pointer was at the
\* release; and the next press of that pointer is reported as WentDown, never
\* as IsDragging.
C28_DragClearedOnRelease ==
  /\ ReleaseFrameDone =>
       persistent_.dragging_pointer_ = kPointerIndexInvalid
  /\ \A E \in GateIds :
       (PointerDerived(E) /\ input_.buttons[0].went_down) =>
         /\ kEventWentDown \in ret
         /\ kEventIsDragging \notin ret

\* C29: StartDrag is reported for an element only if the press under way
\* began inside the rectangle of that element and the pointer is now beyond
\* the threshold from the place of that press; a press that began outside
\* every element gives no StartDrag to an element the held pointer moves over.
C29_StartDragFromPressInside ==
  \A E \in GateIds :
    (JustChecked(E) /\ kEventStartDrag \in ret) =>
      /\ Pressing
      /\ Within(PressedAt, E)
      /\ ~InRange2D(input_.pointers[0].mousepos,
                    VSub(PressedAt, drag_start_threshold_),
                    VAdd(PressedAt, drag_start_threshold_))


\* --------------------------------------------- specification SpecClip
\* The frames of an application whose gui_definition is a scroll region "a"
\* of ScrollSize that holds two buttons, "b" above "d", followed by a button
\* "c" declared after the region.  The content is twice as high as the
\* region, so "d" (or its lower part) is drawn outside the clip rectangle.
\* StartGroup of "b" and of "d" resets clip_size_, so EndScroll of the layout
\* pass leaves the element of "a" with the size (0,0) and "c" is drawn at the
\* origin, over the region, which it exceeds by two units each way.

ClipDescription ==
  <<CallStartGroup(kDirVertical, kAlignLeft, 0, "a"),
    CallStartScroll(ScrollSize)>>
    \o Button("b", "cb") \o Button("d", "cd")
    \o <<CallEndScroll, CallEndGroup,
         CallStartGroup(kDirVertical, kAlignLeft, 0, "c"),
         CallCheckEvent(FALSE),
         CallCustomElement(ContentLarge, "cc"),
         CallEndGroup>>

ClipInner == {"b", "d"}
EndScrollAt ==
  CHOOSE i \in 1 .. Len(ClipDescription) : ClipDescription[i].op = "EndScroll"
InUpper == <<1, 1>>
InLower == <<1, 7>>
BelowClip == <<1, 11>>
ClipPlaces == {InUpper, InLower, BelowClip, FarAway}
ClipOffsets == {kZeros2i, <<0, 5>>}
ClipInputs(inp) ==
  { PointerInput(pos, kZeros2i, button, kZeros2i) :
      pos \in ClipPlaces, button \in ButtonsAfter(inp.buttons[0]) }

InitClip ==
  /\ InitRun /\ InitElements /\ InitGroup /\ InitClipEv
  /\ persistent_ = PersistentStateInit
  /\ offset \in ClipOffsets /\ value = FZero
  /\ description = ClipDescription
  /\ InitReplay /\ InitLog /\ InitCall

NextClip ==
  \/ \E inp \in ClipInputs(input_) : RunBegin(inp)
  \/ DeclareNext
  \/ Replay
  \/ ReturnPass1
  \/ ReturnPass2

SpecClip == InitClip /\ [][NextClip]_vars

\* Pointer i of the frame is inside the clip rectangle of the region.
InsideClip(i) ==
  InRange2D(input_.pointers[i].mousepos, kZeros2i, ScrollSize)

\* The pointer events of CheckEvent.
PointerEvents ==
  {kEventWentUp, kEventWentDown, kEventIsDown,
   kEventStartDrag, kEventEndDrag, kEventIsDragging}

\* C26: in the render pass, between StartScroll and EndScroll, a button of
\* the region that holds not the pointer capture is given no event of a
\* pointer that is outside the clip rectangle, although the pointer be inside
\* the scrolled rectangle of the button; after EndScroll every pointer counts
\* as inside again and the button after the region is given an event whenever
\* pointer 0 is inside its rectangle.
C26_ClippedPointerExcluded ==
  /\ \A E \in ClipInner :
       (/\ JustChecked(E)
        /\ ~IsPointerCaptured(persistent_, E)
        /\ \A i \in 0 .. pointer_max_active_index_ : ~InsideClip(i)) =>
         /\ ret \cap PointerEvents = {}
         /\ kEventHover \in ret => EqualId(persistent_.input_focus_, E)
  /\ (pc = "pass2" /\ rpos >= EndScrollAt) =>
       \A i \in 0 .. pointer_max_active_index_ : clip_mouse_inside_[i]
  /\ (/\ JustChecked("c")
      /\ CanReceivePointerEvent(persistent_, "c")
      /\ InRange2D(input_.pointers[0].mousepos, group_.position_,
                   VAdd(group_.position_, group_.size_))) =>
        ret # kEventNone

\* The pointer goes down below the region, inside the rectangle of "d":
\* "d" is given nothing.
C26_Witness ==
  /\ JustChecked("d")
  /\ ~IsPointerCaptured(persistent_, "d")
  /\ input_.pointers[0].mousepos = BelowClip
  /\ input_.buttons[0].went_down
  /\ InRange2D(BelowClip, group_.position_,
               VAdd(group_.position_, group_.size_))
  /\ ret = kEventNone

\* A press on "c", declared after EndScroll, in a frame in which the region
\* had marked the pointer as outside: "c" is given the press.
ClickAfterRegion ==
  /\ JustChecked("c")
  /\ ~InsideClip(0)
  /\ input_.buttons[0].went_down
  /\ kEventWentDown \in ret


\* ------------------------------------------------ the size of the root group
\* (specification Spec)

\* The calls of d that make an element while no group is open, and the index
\* of the element call i of d makes.
TopLevel(d) ==
  {i \in 1 .. Len(d) :
     d[i].op \in {"StartGroup", "CustomElement"} /\ OpenBefore(d, i) = 0}
ElementOf(d, i) ==
  Cardinality({k \in 1 .. (i - 1) : d[k].op \in {"StartGroup", "CustomElement"}})

\* The root group after the first n calls of d in the layout pass: Extend
\* with the size of each top-level element, as CustomElement and EndGroup do.
RECURSIVE RootMeasured(_, _, _)
RootMeasured(d, elems, n) ==
  IF n = 0 THEN Group(kDirVertical, kAlignLeft, 0, 0)
  ELSE IF n \in TopLevel(d)
    THEN Extend(RootMeasured(d, elems, n - 1), elems[ElementOf(d, n) + 1].size)
    ELSE RootMeasured(d, elems, n - 1)

\* StartRenderPass has switched to the render pass and gui_definition has not
\* issued a call yet.
RenderStarted == pc = "pass2" /\ ~layout_pass_ /\ rpos = 0 /\ same

\* C27: at the start of the render pass the size of the root group is the
\* total the root group measured in the layout pass, the Extend accumulation
\* over all the top-level widgets, however many there are.
C27_RootSizeIsLayoutTotal ==
  RenderStarted =>
    group_.size_ = RootMeasured(script, elements_, Len(script)).size_

\* With one top-level widget the two sizes agree.
RootOfOneWidget ==
  /\ RenderStarted /\ Cardinality(TopLevel(script)) = 1
  /\ group_.size_ = RootMeasured(script, elements_, Len(script)).size_
  /\ group_.size_ # kZeros2i


\* ------------------------------------------- specification SpecRelease
\* The frames of an application whose gui_definition is a scroll region with
\* content larger than the region, or a vertical slider.  One pointer at a
\* time, the mouse (pointer 0) or a finger (pointer 1), goes down, is held and
\* goes up, on the element at two places beyond the drag threshold of each
\* other, or away from it; the other pointer rests away from the UI.

TrackSize == <<4, 12>>
ReleaseDescriptions ==
  { <<CallStartGroup(kDirVertical, kAlignLeft, 0, "a"),
      CallStartScroll(ScrollSize),
      CallCustomElement(ContentLarge, "c"),
      CallEndScroll,
      CallEndGroup>>,
    <<CallStartGroup(kDirVertical, kAlignLeft, 0, "a"),
      CallStartSlider(kDirVertical),
      CallCustomElement(TrackSize, "c"),
      CallEndGroup>> }

\* An input whose pointer i is at pos with its button in state button.
FingerInput(i, pos, button) ==
  [QuietInput EXCEPT !.pointers[i] = [mousepos |-> pos, mousedelta |-> kZeros2i],
                     !.buttons[i] = button]

\* The inputs a frame can have after the frame with input inp: a pointer acts
\* only while the button of the other pointer is up.
ReleaseInputs(inp) ==
  UNION { { FingerInput(i, pos, button) :
              pos \in PointerPlaces, button \in ButtonsAfter(inp.buttons[i]) } :
          i \in {k \in PointerIdx :
                   \A j \in PointerIdx \ {k} : ~inp.buttons[j].is_down} }

InitRelease ==
  /\ InitRun /\ InitElements /\ InitGroup /\ InitClipEv
  /\ persistent_ = PersistentStateInit
  /\ offset = kZeros2i /\ value = FZero
  /\ description \in ReleaseDescriptions
  /\ InitReplay /\ InitLog /\ InitCall

NextRelease ==
  \/ \E inp \in ReleaseInputs(input_) : RunBegin(inp)
  \/ DeclareNext
  \/ Replay
  \/ ReturnPass1
  \/ ReturnPass2

SpecRelease == InitRelease /\ [][NextRelease]_vars

\* The Run of a frame in which no button is down has returned.
ButtonsUpDone ==
  pc = "idle" /\ calls # <<>> /\ \A i \in PointerIdx : ~input_.buttons[i].is_down

\* C30: the pointer capture a scroll region or a slider took on StartDrag is
\* given back in the frame in which the button of the dragging pointer goes
\* up, whichever pointer dragged and wherever it is at the release: once the
\* Run of a frame without a button down has returned, no element holds the
\* capture and no pointer is recorded as dragging.
C30_CaptureGivenBack ==
  ButtonsUpDone =>
    /\ persistent_.mouse_capture_ = kDummyId
    /\ persistent_.dragging_pointer_ = kPointerIndexInvalid

\* The mouse dragged, and its release away from the element gave the capture
\* back.
MouseDragReleased ==
  /\ ButtonsUpDone
  /\ input_.buttons[0].went_up
  /\ input_.pointers[0].mousepos = FarAway
  /\ kEventEndDrag \in ret
  /\ persistent_.mouse_capture_ = kDummyId


\* ---------------------------------------------- the index RecordId is given
\* (specification SpecCapture)

\* C31: every write to pointer_element uses an index of PointerIdx: at
\* whatever point of a frame gui_definition calls CapturePointer or
\* ReleasePointer, also before a CheckEvent of the frame has returned an event
\* of a pointer, RecordId is given a valid pointer index.
C31_RecordIdIndexValid ==
  "pointer_element written out of range" \notin ub

\* CapturePointer called after a CheckEvent of the frame handled a pointer:
\* the id is recorded for that pointer.
CaptureAfterEvent ==
  /\ lastCapture[2] # kDummyId
  /\ current_pointer_ \in PointerIdx
  /\ persistent_.pointer_element[current_pointer_] = lastCapture[2]
  /\ ub = {}


\* ------------------------------------- the elements focus traversal reads
\* (specification SpecFocus)

\* C32: NextInteractiveElement reads elements_ only at indices within
\* 0 .. len-1 and returns, whatever the start index, the direction and the
\* interactive flags of the elements.
C32_TraversalReadsInRange ==
  arg.called =>
    /\ arg.reads \subseteq 0 .. (Len(elements_) - 1)
    /\ ret # kNoReturn

\* A backward search that wrapped over the end of the vector and found an
\* interactive element, every read inside the vector.
BackwardWrapInRange ==
  /\ arg.called /\ arg.direction = -1
  /\ arg.reads # {} /\ arg.reads \subseteq 0 .. (Len(elements_) - 1)
  /\ \E k \in arg.reads : k > arg.start
  /\ ret \notin {kDummyId, kGarbageId, kNoReturn}


\* ------------------------------------------ specification SpecEditGone
\* The frames of SpecEdit, of an application that between two frames may
\* change its gui_definition: the two buttons "a" and "b", or "b" alone.

GoneDescriptions == {GateDescription, Button("b", "cb")}

\* Between two frames the application turns to another gui_definition.
ChangeDescription ==
  /\ pc = "idle" /\ calls # <<>>
  /\ description' \in GoneDescriptions \ {description}
  /\ UNCHANGED <<runVars, frameVars, clipVars, evVars, persistent_, input_,
                 offset, value, replayVars, traceVars>>

InitEditGone ==
  /\ InitRun /\ InitElements /\ InitGroup /\ InitClipEv
  /\ persistent_ = PersistentStateInit
  /\ offset = kZeros2i /\ value = FZero
  /\ description \in GoneDescriptions
  /\ InitReplay /\ InitLog /\ InitCall

NextEditGone ==
  \/ \E inp \in EditInputs(input_) : RunBegin(inp)
  \/ DeclareNext
  \/ Replay
  \/ ReturnPass1
  \/ ReturnPass2
  \/ \E id \in GateIds : EditCapture(id)
  \/ \E id \in GateIds : EditFinish(id)
  \/ ChangeDescription

SpecEditGone == InitEditGone /\ [][NextEditGone]_vars

\* C33: when the Run of a frame has returned, an element that holds the input
\* capture holds the focus too, also in a frame whose gui_definition declares
\* the capturing element no more.
C33_CaptureImpliesFocus ==
  (RunDone /\ persistent_.input_capture_ # kDummyId) =>
    persistent_.input_focus_ = persistent_.input_capture_

\* A frame has ended with the capture and the focus on "a", which is declared.
CaptureWithFocus ==
  /\ RunDone /\ description = GateDescription
  /\ persistent_.input_capture_ = "a" /\ persistent_.input_focus_ = "a"

====
